---------------------------- MODULE Spec2Model ----------------------------
(***************************************************************************)
(* Speaker-tracking core: the online speaker clusterer                     *)
(* (utils/speakerDetection.ts), the voice-activity predicate               *)
(* (utils/audioUtils.ts) and the session aggregator / controller           *)
(* (hooks/useAudioProcessor.ts).                                           *)
(*                                                                         *)
(* Numbers.  The source computes in IEEE doubles; the model computes in    *)
(* fixed point:                                                            *)
(*   - pitch, spectral centroid and their running averages are integers    *)
(*     in tenths of a hertz (Hz(n) is n hertz); a division rounds down;    *)
(*   - pitchVariance is in (tenths of a hertz) squared;                    *)
(*   - volume is in thousandths (Vol(n) is n/1000);                        *)
(*   - a similarity is an integer in units of 1/SimOne, so that the        *)
(*     weighted sum 0.6*p + 0.4*s and the comparisons with 0.4 and 0.5     *)
(*     are exact;                                                          *)
(*   - times are integer milliseconds, as Date.now() returns them.         *)
(* AudioFeatures keeps the three fields the voice-activity predicate, the  *)
(* clusterer and the aggregator read (volume, pitch, spectralCentroid);    *)
(* zeroCrossingRate, mfcc and the two visualization copies are read by     *)
(* none of them.                                                           *)
(***************************************************************************)
EXTENDS Integers, Sequences, FiniteSets, TLC

\* JavaScript's NaN, and its comparisons: false whenever an operand is NaN.
NaN == -3
Gt(a, b) == a # NaN /\ b # NaN /\ a > b
Lt(a, b) == a # NaN /\ b # NaN /\ a < b

\* JavaScript's null, for the nullable numbers (number | null).
NULL == -2

Max(a, b) == IF a >= b THEN a ELSE b
Min(a, b) == IF a <= b THEN a ELSE b
Abs(a) == IF a >= 0 THEN a ELSE 0 - a

\* n hertz in the model's unit (a tenth of a hertz).
Hz(n) == n * 10
\* n thousandths of full scale, the model's unit of volume.
Vol(n) == n

(***************************************************************************)
(* Bounds of the model.                                                    *)
(***************************************************************************)
\* Caps (maxSpeakers) a detector under test is created with: 0 .. MaxCap.
MaxCap == 2
\* processSpeakerDetection calls made on the detector under test.
MaxCalls == 12
\* Times the frame source changes from one kind of frame to another.
MaxSwitches == 2
\* Calls of the first run of a twin pair of runs.
TwinCalls == 12
\* From the mounted hook (Spec): calls of start(), and frames or runs of
\* frames the processing loop processes.
MaxStarts == 2
MaxFrames == 1
\* From a session that has just started (SpecSession): frames or runs of
\* frames the processing loop processes.
SessionFrames == 3
\* From a session that has just started, with start() called again
\* (SpecRestart): calls of start(), and frames or runs of frames.
RestartStarts == 1
RestartFrames == 1
\* From a session that has just started, with invalid frames (SpecInvalid):
\* frames or runs of frames.
InvalidFrames == 3
\* From a session with two processing loops (SpecOverlap): the same.
OverlapStarts == 1
OverlapFrames == 1
\* Calls of stop() between one start (or reset) and the next.
\* The longest sample buffer and the longest magnitude spectrum given to the
\* feature functions alone.
MaxBuffer == 5
MaxSpectrum == 3
\* Scenario A: the frames in each of its two blocks.
BlockFrames == 200
\* Scenario B: the frames of the session.
SilentFrames == 50
\* Scenario C: the frames of the session.
ClusterFrames == 30
\* The application: start() calls and frames processed.
AppStarts == 2
AppFrames == 1
MaxStops == 2
\* The clock stops advancing at MaxTime milliseconds.
MaxTime == 100

(***************************************************************************)
(* utils/speakerDetection.ts                                               *)
(***************************************************************************)
PROFILE_SAMPLES_THRESHOLD == 10

\* The two tolerance bands of calculateSimilarity, in hertz.
PitchTolerance == 150
SpectralTolerance == 1000

\* n tenths as a similarity: the similarity 1.0 is Tenths(10).
Tenths(n) == n * Hz(PitchTolerance) * Hz(SpectralTolerance)
SimOne == Tenths(10)

\* A faulty threshold: 0.3.
SPEAKER_CHANGE_THRESHOLD_low == Tenths(3)

SPEAKER_CHANGE_THRESHOLD == Tenths(4)

\* The AudioFeatures value null (audioFeatures, lastFeatures before a frame).
NoFeatures == [volume |-> NULL, pitch |-> NULL, spectralCentroid |-> NULL]

\* A Map with no entry.
EmptyMap == [i \in {} |-> 0]

\* Map.set(key, value) on a copy of map m.
MapSet(m, key, value) ==
    [i \in (DOMAIN m) \cup {key} |-> IF i = key THEN value ELSE m[i]]

createSpeakerDetector(maxSpeakers) ==
    [profiles |-> EmptyMap,
     currentSpeakerId |-> NULL,
     lastFeatures |-> NoFeatures,
     speakerCount |-> 0,
     maxSpeakers |-> maxSpeakers]

\* A faulty similarity: the two terms are not kept from going negative.
calculateSimilarity_unclamped(features, profile) ==
    IF profile.samples < PROFILE_SAMPLES_THRESHOLD
    THEN Tenths(5)
    ELSE LET pitchDiff == Abs(features.pitch - profile.avgPitch)
             spectralDiff ==
                 Abs(features.spectralCentroid - profile.avgSpectralCentroid)
         IN  (Hz(PitchTolerance) - pitchDiff) * 6 * Hz(SpectralTolerance)
               + (Hz(SpectralTolerance) - spectralDiff) * 4 * Hz(PitchTolerance)

\* A faulty similarity: a profile is compared whatever its samples.
calculateSimilarity_eager(features, profile) ==
    LET pitchDiff == Abs(features.pitch - profile.avgPitch)
        pitchSimilarity == Max(0, Hz(PitchTolerance) - pitchDiff)
        spectralDiff ==
            Abs(features.spectralCentroid - profile.avgSpectralCentroid)
        spectralSimilarity == Max(0, Hz(SpectralTolerance) - spectralDiff)
    IN  pitchSimilarity * 6 * Hz(SpectralTolerance)
          + spectralSimilarity * 4 * Hz(PitchTolerance)

\* A faulty similarity: no profile is ever taken to be stable.
calculateSimilarity_unstable(features, profile) == Tenths(5)

calculateSimilarity(features, profile) ==
    IF profile.samples < PROFILE_SAMPLES_THRESHOLD
    THEN Tenths(5)
    ELSE LET pitchDiff == Abs(features.pitch - profile.avgPitch)
             \* pitchSimilarity * Hz(PitchTolerance)
             pitchSimilarity == Max(0, Hz(PitchTolerance) - pitchDiff)
             spectralDiff ==
                 Abs(features.spectralCentroid - profile.avgSpectralCentroid)
             \* spectralSimilarity * Hz(SpectralTolerance)
             spectralSimilarity == Max(0, Hz(SpectralTolerance) - spectralDiff)
         IN  pitchSimilarity * 6 * Hz(SpectralTolerance)
               + spectralSimilarity * 4 * Hz(PitchTolerance)

\* The weight of the exponential moving average is 1/AlphaInv:
\* alpha = min(0.1, 1 / (samples + 1)).
AlphaInv(samples) == Max(10, samples + 1)

updateProfile(profile, features) ==
    LET d == AlphaInv(profile.samples)
        newAvgPitch == (profile.avgPitch * (d - 1) + features.pitch) \div d
        newAvgSpectral ==
            (profile.avgSpectralCentroid * (d - 1) + features.spectralCentroid)
                \div d
        dev == features.pitch - newAvgPitch
        pitchVariance == (profile.pitchVariance * (d - 1) + dev * dev) \div d
    IN  [speakerId |-> profile.speakerId,
         avgPitch |-> newAvgPitch,
         avgSpectralCentroid |-> newAvgSpectral,
         pitchVariance |-> pitchVariance,
         samples |-> profile.samples + 1]

createProfile(speakerId, features) ==
    [speakerId |-> speakerId,
     avgPitch |-> features.pitch,
     avgSpectralCentroid |-> features.spectralCentroid,
     pitchVariance |-> 0,
     samples |-> 1]

\* The loop "for (const [speakerId, profile] of detector.profiles)": a Map
\* iterates in insertion order.  Every key is inserted by
\* processSpeakerDetection with the value speakerCount has at that moment,
\* and speakerCount only grows, so insertion order is ascending key order.
\* best is [id, sim], the loop's (bestSpeakerId, bestSimilarity).
RECURSIVE CompareProfiles(_, _, _, _)
CompareProfiles(profiles, features, todo, best) ==
    IF todo = {} THEN best
    ELSE LET speakerId == CHOOSE i \in todo : \A j \in todo : i <= j
             similarity == calculateSimilarity(features, profiles[speakerId])
             next == IF similarity > best.sim
                     THEN [id |-> speakerId, sim |-> similarity]
                     ELSE best
         IN  CompareProfiles(profiles, features, todo \ {speakerId}, next)

\* A new speaker's id, when speakerCount is off by one (numbering from 1).
NewSpeakerId_fromOne(detector) == detector.speakerCount + 1

\* "bestSpeakerId = detector.speakerCount": the id a new speaker gets.
NewSpeakerId(detector) == detector.speakerCount

PitchRejected(features) ==
    features.pitch < Hz(60) \/ features.pitch > Hz(400)

\* A faulty detectSpeaker: a frame that matches no profile makes a new
\* speaker whether or not the cap is reached.
detectSpeaker_uncapped(detector, features) ==
    IF PitchRejected(features)
    THEN [speakerId |-> IF detector.currentSpeakerId = NULL
                        THEN -1 ELSE detector.currentSpeakerId,
          isNew |-> FALSE,
          confidence |-> 0]
    ELSE LET best == CompareProfiles(detector.profiles, features,
                                     DOMAIN detector.profiles,
                                     [id |-> -1, sim |-> 0])
         IN  IF best.sim < SPEAKER_CHANGE_THRESHOLD
             THEN [speakerId |-> NewSpeakerId(detector),
                   isNew |-> TRUE,
                   confidence |-> best.sim]
             ELSE [speakerId |-> best.id, isNew |-> FALSE,
                   confidence |-> best.sim]

detectSpeaker(detector, features) ==
    IF PitchRejected(features)
    THEN [speakerId |-> IF detector.currentSpeakerId = NULL
                        THEN -1 ELSE detector.currentSpeakerId,
          isNew |-> FALSE,
          confidence |-> 0]
    ELSE LET best == CompareProfiles(detector.profiles, features,
                                     DOMAIN detector.profiles,
                                     [id |-> -1, sim |-> 0])
         IN  IF best.sim < SPEAKER_CHANGE_THRESHOLD
                /\ detector.speakerCount < detector.maxSpeakers
             THEN [speakerId |-> NewSpeakerId(detector),
                   isNew |-> TRUE,
                   confidence |-> best.sim]
             ELSE IF best.sim < SPEAKER_CHANGE_THRESHOLD /\ best.id = -1
             THEN [speakerId |-> 0, isNew |-> FALSE, confidence |-> best.sim]
             ELSE [speakerId |-> best.id, isNew |-> FALSE,
                   confidence |-> best.sim]

\* The profiles map processSpeakerDetection builds from the decision.
NewProfiles(detector, features, speakerId, isNew) ==
    IF speakerId >= 0 /\ isNew
    THEN MapSet(detector.profiles, speakerId, createProfile(speakerId, features))
    ELSE IF speakerId >= 0 /\ speakerId \in DOMAIN detector.profiles
    THEN MapSet(detector.profiles, speakerId,
                updateProfile(detector.profiles[speakerId], features))
    ELSE detector.profiles

processSpeakerDetection(detector, features) ==
    LET r == detectSpeaker(detector, features)
    IN  [detector |->
            [profiles |-> NewProfiles(detector, features, r.speakerId, r.isNew),
             currentSpeakerId |-> IF r.speakerId >= 0 THEN r.speakerId
                                  ELSE detector.currentSpeakerId,
             lastFeatures |-> features,
             speakerCount |-> IF r.isNew THEN detector.speakerCount + 1
                              ELSE detector.speakerCount,
             maxSpeakers |-> detector.maxSpeakers],
         speakerId |-> r.speakerId,
         isNewSpeaker |-> r.isNew,
         confidence |-> r.confidence]

\* A faulty reset: the cap is the parameter's default, not the argument.
resetDetector_defaultCap(maxSpeakers) == createSpeakerDetector(5)

\* A faulty reset: the detector keeps a speaker count.
resetDetector_counted(maxSpeakers) ==
    [createSpeakerDetector(maxSpeakers) EXCEPT !.speakerCount = 1]

resetDetector(maxSpeakers) == createSpeakerDetector(maxSpeakers)

(***************************************************************************)
(* Frames.  A frame reaches the core as the AudioFeatures extracted from   *)
(* it; the frame source delivers frames of a few kinds.                    *)
(***************************************************************************)
Features(v, p, c) == [volume |-> v, pitch |-> p, spectralCentroid |-> c]

\* A loud voiced frame of a low voice, of a higher voice, of a third voice.
FrameLow == Features(Vol(50), Hz(120), Hz(800))
FrameHigh == Features(Vol(50), Hz(220), Hz(1500))
FrameThird == Features(Vol(50), Hz(330), Hz(2500))
\* A loud frame in which estimatePitch finds no periodicity (pitch 0).
FrameNoPitch == Features(Vol(50), 0, Hz(800))
\* What extractAudioFeatures returns for a time-domain buffer that holds a
\* NaN or is empty (no check rejects it): calculateRMS returns NaN (a sum
\* with a NaN term, or 0/0), and estimatePitch returns 0 (no correlation
\* compares greater than 0, or its loop does not run).
FrameInvalid == Features(NaN, 0, 0)
\* A frame below the silence threshold.
FrameSilent == Features(Vol(1), 0, 0)
\* A frame of the low voice no louder than the silence threshold.
FrameQuietVoice == Features(Vol(8), Hz(120), Hz(800))
\* A frame above the silence threshold and not above 0.02, with no pitch and
\* no frequency content.
FrameFaint == Features(Vol(15), 0, 0)

\* Loud frames with the pitch at the two ends of detectSpeaker's pitch
\* range, and a tenth of a hertz outside it.
FrameEdgeLow == Features(Vol(50), Hz(60), Hz(800))
FrameEdgeHigh == Features(Vol(50), Hz(400), Hz(1500))
FrameBelow == Features(Vol(50), Hz(60) - 1, Hz(800))
FrameAbove == Features(Vol(50), Hz(400) + 1, Hz(1500))
GateFrames == {FrameLow, FrameEdgeLow, FrameEdgeHigh, FrameBelow, FrameAbove}

\* A loud frame of a voice half-way out of both tolerance bands of the low
\* voice: its similarity to the stable profile of the low voice is 0.5.
FrameBetween == Features(Vol(50), Hz(195), Hz(1300))
MatchFrames == {FrameLow, FrameHigh, FrameThird, FrameBetween}

VoicedFrames == {FrameLow, FrameHigh, FrameThird, FrameNoPitch}

(***************************************************************************)
(* utils/audioUtils.ts: the voice-activity predicate.                      *)
(***************************************************************************)
\* JavaScript's * and + on numbers one of which may be NaN.
Times(a, b) == IF a = NaN \/ b = NaN THEN NaN ELSE a * b
Plus(a, b) == IF a = NaN \/ b = NaN THEN NaN ELSE a + b

\* A quotient num / den of two integers, kept exact; den = 0 is the
\* non-number a division by zero gives.
Quotient(n, d) == [num |-> n, den |-> d]
Zero == Quotient(0, 1)

\* "for (i = 0; i < dataArray.length - period; i++)
\*      correlation += dataArray[i] * dataArray[i + period]", from index i on
\* (dataArray is a sequence: dataArray[i] of the code is dataArray[i + 1]).
RECURSIVE Correlate(_, _, _, _)
Correlate(dataArray, period, i, correlation) ==
    IF i < Len(dataArray) - period
    THEN Correlate(dataArray, period, i + 1,
                   Plus(correlation,
                        Times(dataArray[i + 1], dataArray[i + 1 + period])))
    ELSE correlation

Correlation(dataArray, period) == Correlate(dataArray, period, 0, 0)

\* "for (period = minPeriod; period < maxPeriod && period <
\* dataArray.length; period++)", from this period on; best is
\* [correlation, period], the loop's (bestCorrelation, bestPeriod).
RECURSIVE PitchLoop(_, _, _, _)
PitchLoop(dataArray, period, maxPeriod, best) ==
    IF period < maxPeriod /\ period < Len(dataArray)
    THEN LET correlation == Correlation(dataArray, period)
         IN  PitchLoop(dataArray, period + 1, maxPeriod,
                       IF Gt(correlation, best.correlation)
                       THEN [correlation |-> correlation, period |-> period]
                       ELSE best)
    ELSE best

\* A faulty estimatePitch: the search starts at lag 1 whatever the rate.
estimatePitch_fromOne(dataArray, sampleRate) ==
    LET maxPeriod == sampleRate \div 50
        best == PitchLoop(dataArray, 1, maxPeriod,
                          [correlation |-> 0, period |-> 0])
    IN  IF best.period > 0 THEN Quotient(sampleRate, best.period) ELSE Zero

estimatePitch(dataArray, sampleRate) ==
    LET minPeriod == sampleRate \div 500
        maxPeriod == sampleRate \div 50
        best == PitchLoop(dataArray, minPeriod, maxPeriod,
                          [correlation |-> 0, period |-> 0])
    IN  IF best.period > 0 THEN Quotient(sampleRate, best.period) ELSE Zero

\* The loop of calculateSpectralCentroid from bin i on; acc is [weightedSum,
\* sum], weightedSum times fftSize (frequency = i * sampleRate / fftSize).
RECURSIVE CentroidLoop(_, _, _, _)
CentroidLoop(frequencyData, sampleRate, i, acc) ==
    IF i < Len(frequencyData)
    THEN CentroidLoop(frequencyData, sampleRate, i + 1,
                      [weightedSum |-> acc.weightedSum
                                         + frequencyData[i + 1] * i * sampleRate,
                       sum |-> acc.sum + frequencyData[i + 1]])
    ELSE acc

\* A faulty centroid: the division is made whatever the sum.
calculateSpectralCentroid_unguarded(frequencyData, sampleRate, fftSize) ==
    LET acc == CentroidLoop(frequencyData, sampleRate, 0,
                            [weightedSum |-> 0, sum |-> 0])
    IN  Quotient(acc.weightedSum, acc.sum * fftSize)

calculateSpectralCentroid(frequencyData, sampleRate, fftSize) ==
    LET acc == CentroidLoop(frequencyData, sampleRate, 0,
                            [weightedSum |-> 0, sum |-> 0])
    IN  IF acc.sum > 0 THEN Quotient(acc.weightedSum, acc.sum * fftSize)
        ELSE Zero

\* A faulty predicate: the volume against the threshold, and nothing else.
detectVoiceActivity_volumeOnly(features, silenceThreshold) ==
    Gt(features.volume, silenceThreshold)

detectVoiceActivity(features, silenceThreshold) ==
    LET hasSignificantVolume == Gt(features.volume, silenceThreshold)
        hasPitch == Gt(features.pitch, Hz(50)) /\ Lt(features.pitch, Hz(600))
        hasFrequencyContent == Gt(features.spectralCentroid, Hz(100))
    IN  IF Gt(features.volume, Vol(20))
        THEN TRUE
        ELSE hasSignificantVolume /\ (hasPitch \/ hasFrequencyContent)

\* DEFAULT_SPEAKER_CONFIG
minSpeechDuration == 50
silenceThreshold == Vol(8)

(***************************************************************************)
(* hooks/useAudioProcessor.ts: the roster.  A Speaker is                   *)
(* [id, totalTime, isActive, lastActiveTime]; name and color are functions *)
(* of id.  The roster is the array speakersRef.current.                    *)
(***************************************************************************)
HasSpeaker(roster, speakerId) ==
    \E i \in DOMAIN roster : roster[i].id = speakerId

\* A faulty insertion: the new speaker is put first and the list not sorted.
InsertSorted_first(roster, newSpeaker) == <<newSpeaker>> \o roster

\* [...roster, newSpeaker].sort((a, b) => a.id - b.id), for an id not in it.
InsertSorted(roster, newSpeaker) ==
    LET before == SelectSeq(roster, LAMBDA sp : sp.id < newSpeaker.id)
        after == SelectSeq(roster, LAMBDA sp : sp.id > newSpeaker.id)
    IN  before \o <<newSpeaker>> \o after

\* A faulty addSpeaker: the range check is off by one.
addSpeaker_offByOne(roster, speakerId, maxSpeakers) ==
    IF speakerId < 0 \/ speakerId + 1 >= maxSpeakers THEN roster
    ELSE IF HasSpeaker(roster, speakerId) THEN roster
    ELSE InsertSorted(roster, [id |-> speakerId, totalTime |-> 0,
                               isActive |-> FALSE, lastActiveTime |-> NULL])

\* addSpeaker(speakerId), as the new value of speakersRef.current.
addSpeaker(roster, speakerId, maxSpeakers) ==
    IF speakerId < 0 \/ speakerId >= maxSpeakers THEN roster
    ELSE IF HasSpeaker(roster, speakerId) THEN roster
    ELSE InsertSorted(roster, [id |-> speakerId, totalTime |-> 0,
                               isActive |-> FALSE, lastActiveTime |-> NULL])

\* A faulty elapsed time: the operands exchanged.
Elapsed_reversed(now, since) == since - now

\* elapsed = now - lastSpeakingTimeRef.current
Elapsed(now, since) == now - since

\* A faulty hand-off map: the elapsed time is added only past the debounce
\* of the silence branch.
HandOff_gated(roster, speakerId, elapsed) ==
    [i \in DOMAIN roster |->
        IF roster[i].id = speakerId
        THEN [roster[i] EXCEPT
                !.totalTime = IF elapsed > minSpeechDuration
                              THEN @ + elapsed ELSE @,
                !.isActive = FALSE]
        ELSE roster[i]]

\* The hand-off map: the previous speaker gets the elapsed time and becomes
\* inactive, the others are kept as they are.
HandOff(roster, speakerId, elapsed) ==
    [i \in DOMAIN roster |->
        IF roster[i].id = speakerId
        THEN [roster[i] EXCEPT !.totalTime = @ + elapsed, !.isActive = FALSE]
        ELSE roster[i]]

\* The map of the silence branch and of stop: the last speaker gets the
\* elapsed time, and every speaker becomes inactive.
Finalize(roster, speakerId, elapsed) ==
    [i \in DOMAIN roster |->
        IF roster[i].id = speakerId
        THEN [roster[i] EXCEPT !.totalTime = @ + elapsed, !.isActive = FALSE]
        ELSE [roster[i] EXCEPT !.isActive = FALSE]]

\* A faulty "Update speaker active state": the ids are compared with <=.
MarkActive_upTo(roster, speakerId, now) ==
    [i \in DOMAIN roster |->
        IF roster[i].id <= speakerId
        THEN [roster[i] EXCEPT !.isActive = TRUE, !.lastActiveTime = now]
        ELSE [roster[i] EXCEPT !.isActive = FALSE]]

\* A faulty "Update speaker active state": the other speakers are kept as
\* they are.
MarkActive_keepOthers(roster, speakerId, now) ==
    [i \in DOMAIN roster |->
        IF roster[i].id = speakerId
        THEN [roster[i] EXCEPT !.isActive = TRUE, !.lastActiveTime = now]
        ELSE roster[i]]

\* The map "Update speaker active state".
MarkActive(roster, speakerId, now) ==
    [i \in DOMAIN roster |->
        IF roster[i].id = speakerId
        THEN [roster[i] EXCEPT !.isActive = TRUE, !.lastActiveTime = now]
        ELSE [roster[i] EXCEPT !.isActive = FALSE]]

\* A faulty debounce: no interval is long enough.
LongEnough_never(elapsed) == FALSE

\* The silence branch's debounce: "elapsed > minSpeechDuration".
LongEnough(elapsed) == elapsed > minSpeechDuration

(***************************************************************************)
(* hooks/useTimer.ts: the session timer.  Its state is isRunning and the   *)
(* refs startTimeRef and accumulatedTimeRef; time, the value displayed, is *)
(* computed from them by updateTimer and read by no handler.  start and    *)
(* stop close over the isRunning of the render that made them.             *)
(***************************************************************************)
TimerMounted ==
    [isRunning |-> FALSE, startTimeRef |-> NULL, accumulatedTimeRef |-> 0]

\* useTimer's start, which the application calls startTimer.
startTimer(t, isRunning, now_) ==
    IF ~isRunning
    THEN [t EXCEPT !.startTimeRef = now_, !.isRunning = TRUE]
    ELSE t

\* useTimer's stop, which the application calls stopTimer.
stopTimer(t, isRunning, now_) ==
    IF isRunning /\ t.startTimeRef # NULL
    THEN [t EXCEPT !.accumulatedTimeRef = @ + (now_ - t.startTimeRef),
                   !.startTimeRef = NULL,
                   !.isRunning = FALSE]
    ELSE t

\* useTimer's reset, which the application calls resetTimer.
resetTimer(t) == TimerMounted

(***************************************************************************)
(* State.                                                                  *)
(***************************************************************************)
VARIABLES
    \* the clusterer alone (SpecDetector)
    detector,      \* the SpeakerDetector under test
    result,        \* what the last processSpeakerDetection call returned
    idsReturned,   \* the non-negative speaker ids returned so far
    calls,         \* calls made so far
    probe,         \* a pure function alone (SpecVad): its arguments and
                   \* what it returned; the second of two runs of the
                   \* clusterer (SpecTwin)
    switches,      \* changes of frame kind so far              
    \* useAudioProcessor: the option and the React state
    maxSpeakers,          \* options.maxSpeakers
    status, speakers, currentSpeakerId, audioFeatures, error, isVoiceActive,
    \* useAudioProcessor: the refs.  A ref to a browser object is TRUE when
    \* it holds the object and FALSE when it is null; sourceRef and
    \* gainNodeRef are set and cleared with analyserRef and read nowhere.
    audioContextRef, analyserRef, streamRef,
    animationFrameRef,    \* TRUE when it holds a requestAnimationFrame id
    speakerDetectorRef, lastSpeakerIdRef, lastSpeakingTimeRef, speakersRef,
    \* the environment
    now,                  \* Date.now()
    rafQueue,             \* the callbacks requestAnimationFrame holds, in
                          \* order; a callback is the processAudioFrame of
                          \* one render, which closes over that render's
                          \* status; isRef marks the one whose id
                          \* animationFrameRef holds, and beforeReset
                          \* the ones scheduled by a loop that a reset()
                          \* has found running
    pendingStarts,        \* start() calls suspended at an await
    \* history
    lastOp,               \* the last operation and what it did
    lastFrame,            \* the last frame's features, and the frames of
                          \* its run still to come
    ledger,               \* since the last start or reset: the time that
                          \* has passed with status "running", how much of
                          \* it with no speaker being timed and how much
                          \* with the last frame silent, and the speaking
                          \* intervals the silence branch has dropped
    framesLeft, startsLeft,   \* what the bounds still allow
    stopCalls,            \* stop() calls since the last start or reset
    \* the application (App.tsx)
    timer,                \* useTimer's state
    pendingHandlers       \* the handleStart calls suspended at "await
                          \* startAudio()", one for each of pendingStarts:
                          \* the timer's isRunning in the render that made
                          \* the handler

dvars == <<detector, result, idsReturned, calls, probe>>
hvars == <<maxSpeakers, status, speakers, currentSpeakerId, audioFeatures,
           error, isVoiceActive, audioContextRef, analyserRef, streamRef,
           animationFrameRef, speakerDetectorRef, lastSpeakerIdRef,
           lastSpeakingTimeRef, speakersRef, now, rafQueue, pendingStarts,
           lastOp, lastFrame, ledger, framesLeft, startsLeft, stopCalls,
           timer, pendingHandlers>>
avars == <<timer, pendingHandlers>>
vars == <<dvars, switches, hvars>>

NoError == "null"

\* What lastOp records: the operation; for a frame, whether voice was
\* active, the id the clusterer returned and the id onSpeakerChange was
\* called with; for stop() and reset(), whether the operation before it was
\* the same one; for a start() that has run to its end, the status it found
\* and the number of speakers in the roster it cleared.
Op(name) == [op |-> name, voiceActive |-> FALSE, speakerId |-> NULL,
             notified |-> NULL, repeat |-> FALSE, from |-> "", cleared |-> 0]

NoLedger == [elapsed |-> 0, noSpeaker |-> 0, silent |-> 0, dropped |-> 0]

\* The state of the hook once mounted with options.maxSpeakers = k.
Mounted(k) ==
    /\ maxSpeakers = k
    /\ status = "idle"
    /\ speakers = <<>>
    /\ currentSpeakerId = NULL
    /\ audioFeatures = NoFeatures
    /\ error = NoError
    /\ isVoiceActive = FALSE
    /\ audioContextRef = FALSE
    /\ analyserRef = FALSE
    /\ streamRef = FALSE
    /\ animationFrameRef = FALSE
    /\ speakerDetectorRef = createSpeakerDetector(k)
    /\ lastSpeakerIdRef = NULL
    /\ lastSpeakingTimeRef = 0
    /\ speakersRef = <<>>
    /\ now = 0
    /\ rafQueue = <<>>
    /\ pendingStarts = <<>>
    /\ lastOp = Op("mount")
    /\ lastFrame = [features |-> NoFeatures, more |-> 0]
    /\ ledger = NoLedger
    /\ stopCalls = 0
    /\ timer = TimerMounted
    /\ pendingHandlers = <<>>

(***************************************************************************)
(* The clusterer alone: a detector created with some cap and fed an        *)
(* arbitrary sequence of voiced frames through processSpeakerDetection.    *)
(***************************************************************************)
NoProbe == [features |-> NoFeatures, silenceThreshold |-> NULL,
            called |-> FALSE, voiced |-> FALSE]

NoResult == [speakerId |-> NULL, isNewSpeaker |-> FALSE, confidence |-> 0]

DetectorCreated(k) ==
    /\ detector = createSpeakerDetector(k)
    /\ result = NoResult
    /\ idsReturned = {}
    /\ calls = 0
    /\ probe = NoProbe

DetInit ==
    /\ \E k \in 0..MaxCap : DetectorCreated(k)
    /\ switches = 0
    /\ Mounted(0)
    /\ framesLeft = 0
    /\ startsLeft = 0

\* One call detector = processSpeakerDetection(detector, features).detector.
Classify(features) ==
    LET r == processSpeakerDetection(detector, features)
        switch == IF detector.lastFeatures \in {NoFeatures, features}
                  THEN 0 ELSE 1
    IN  /\ calls < MaxCalls
        /\ switches + switch <= MaxSwitches
        /\ detector' = r.detector
        /\ result' = [speakerId |-> r.speakerId,
                      isNewSpeaker |-> r.isNewSpeaker,
                      confidence |-> r.confidence]
        /\ idsReturned' = idsReturned \cup
                             (IF r.speakerId >= 0 THEN {r.speakerId} ELSE {})
        /\ calls' = calls + 1
        /\ switches' = switches + switch
        /\ UNCHANGED <<probe, hvars>>

ClassifyFrame == \E features \in VoicedFrames : Classify(features)

DetNext == ClassifyFrame

SpecDetector == DetInit /\ [][DetNext]_vars

\* The clusterer alone, fed frames at and around the ends of the pitch range.
ClassifyGateFrame == \E features \in GateFrames : Classify(features)

GateNext == ClassifyGateFrame

SpecGate == DetInit /\ [][GateNext]_vars

\* The clusterer alone, fed frames of accepted pitch, one of them as
\* similar to a stable profile as to any profile not yet stable.
ClassifyMatchFrame == \E features \in MatchFrames : Classify(features)

MatchNext == ClassifyMatchFrame

SpecMatch == DetInit /\ [][MatchNext]_vars

(***************************************************************************)
(* The clusterer run twice: two detectors created alike are fed the same   *)
(* frames, the second run (probe) one call behind the first (detector).    *)
(* The runs are separate calls, made at different moments.                 *)
(***************************************************************************)
TwinInit ==
    /\ \E k \in 0..MaxCap :
          /\ detector = createSpeakerDetector(k)
          /\ probe = [detector |-> createSpeakerDetector(k),
                      result |-> NoResult, behind |-> FALSE]
    /\ result = NoResult
    /\ idsReturned = {}
    /\ calls = 0
    /\ switches = 0
    /\ Mounted(0)
    /\ framesLeft = 0
    /\ startsLeft = 0

Returned(r) == [speakerId |-> r.speakerId,
                isNewSpeaker |-> r.isNewSpeaker,
                confidence |-> r.confidence]

\* A faulty call: the confidence comes from outside the arguments.
Call_counting(d, features) ==
    [processSpeakerDetection(d, features) EXCEPT !.confidence = calls]

\* One call processSpeakerDetection(d, features).
Call(d, features) == processSpeakerDetection(d, features)

\* The first run takes a frame.
TwinFirst ==
    /\ ~probe.behind
    /\ calls < TwinCalls
    /\ \E features \in VoicedFrames :
          LET r == Call(detector, features)
              switch == IF detector.lastFeatures \in {NoFeatures, features}
                        THEN 0 ELSE 1
          IN  /\ switches + switch <= MaxSwitches
              /\ detector' = r.detector
              /\ result' = Returned(r)
              /\ idsReturned' =
                    idsReturned \cup
                        (IF r.speakerId >= 0 THEN {r.speakerId} ELSE {})
              /\ calls' = calls + 1
              /\ switches' = switches + switch
              /\ probe' = [probe EXCEPT !.behind = TRUE]
    /\ UNCHANGED hvars

\* The second run takes the frame the first has taken.
TwinSecond ==
    /\ probe.behind
    /\ LET r == Call(probe.detector, detector.lastFeatures)
       IN  probe' = [detector |-> r.detector, result |-> Returned(r),
                     behind |-> FALSE]
    /\ UNCHANGED <<detector, result, idsReturned, calls, switches, hvars>>

TwinNext ==
    \/ TwinFirst
    \/ TwinSecond

SpecTwin == TwinInit /\ [][TwinNext]_vars

(***************************************************************************)
(* The similarity alone: calculateSimilarity applied to one AudioFeatures  *)
(* value and one VoiceProfile, drawn from grids that hold profiles on both *)
(* sides of the stability threshold and differences inside, at the end of  *)
(* and outside both tolerance bands.                                       *)
(***************************************************************************)
SimPitches == {Hz(60), Hz(120), Hz(195), Hz(270), Hz(270) + 1, Hz(400)}
SimCentroids == {0, Hz(800), Hz(1300), Hz(1800), Hz(2500)}
SimAvgPitches == {Hz(120), Hz(220)}
SimAvgCentroids == {Hz(800), Hz(1500)}
SimSamples == {1, PROFILE_SAMPLES_THRESHOLD - 1, PROFILE_SAMPLES_THRESHOLD,
               PROFILE_SAMPLES_THRESHOLD + 1}

SimInit ==
    /\ \E p \in SimPitches, c \in SimCentroids, ap \in SimAvgPitches,
          ac \in SimAvgCentroids, n \in SimSamples :
          probe = [features |-> Features(Vol(50), p, c),
                   profile |-> [speakerId |-> 0, avgPitch |-> ap,
                                avgSpectralCentroid |-> ac,
                                pitchVariance |-> 0, samples |-> n],
                   called |-> FALSE, similarity |-> 0]
    /\ detector = createSpeakerDetector(0)
    /\ result = NoResult
    /\ idsReturned = {}
    /\ calls = 0
    /\ switches = 0
    /\ Mounted(0)
    /\ framesLeft = 0
    /\ startsLeft = 0

\* One call calculateSimilarity(features, profile).
SimCall ==
    /\ ~probe.called
    /\ probe' = [probe EXCEPT
                   !.called = TRUE,
                   !.similarity = calculateSimilarity(probe.features,
                                                      probe.profile)]
    /\ UNCHANGED <<detector, result, idsReturned, calls, switches, hvars>>

SimNext == SimCall

SpecSimilarity == SimInit /\ [][SimNext]_vars

(***************************************************************************)
(* The feature functions alone: estimatePitch applied to one sample buffer *)
(* and one sample rate, calculateSpectralCentroid to one magnitude         *)
(* spectrum.  The samples are -1, 0 and 1 in quarters (-4, 0, 4) and NaN;  *)
(* the rates are small, so that the lags searched are lags a short buffer  *)
(* has.                                                                    *)
(***************************************************************************)
SampleValues == {-4, 0, 4, NaN}
SampleRates == {0, 100, 500, 1000, 1500}
Magnitudes == {0, 1, 255}
FftSizes == {4, 8}

Buffers(values, maxLen) == UNION {[1..n -> values] : n \in 0..maxLen}

FeaturesInit ==
    /\ \/ \E dataArray \in Buffers(SampleValues, MaxBuffer),
             sampleRate \in SampleRates :
             probe = [function |-> "estimatePitch", dataArray |-> dataArray,
                      sampleRate |-> sampleRate, fftSize |-> 0,
                      called |-> FALSE, returned |-> Zero]
       \/ \E frequencyData \in Buffers(Magnitudes, MaxSpectrum),
             sampleRate \in SampleRates, fftSize \in FftSizes :
             probe = [function |-> "calculateSpectralCentroid",
                      dataArray |-> frequencyData,
                      sampleRate |-> sampleRate, fftSize |-> fftSize,
                      called |-> FALSE, returned |-> Zero]
    /\ detector = createSpeakerDetector(0)
    /\ result = NoResult
    /\ idsReturned = {}
    /\ calls = 0
    /\ switches = 0
    /\ Mounted(0)
    /\ framesLeft = 0
    /\ startsLeft = 0

\* One call estimatePitch(dataArray, sampleRate).
PitchCall ==
    /\ ~probe.called
    /\ probe.function = "estimatePitch"
    /\ probe' = [probe EXCEPT
                   !.called = TRUE,
                   !.returned = estimatePitch(probe.dataArray,
                                              probe.sampleRate)]
    /\ UNCHANGED <<detector, result, idsReturned, calls, switches, hvars>>

\* One call calculateSpectralCentroid(frequencyData, sampleRate, fftSize).
CentroidCall ==
    /\ ~probe.called
    /\ probe.function = "calculateSpectralCentroid"
    /\ probe' = [probe EXCEPT
                   !.called = TRUE,
                   !.returned = calculateSpectralCentroid(probe.dataArray,
                                                          probe.sampleRate,
                                                          probe.fftSize)]
    /\ UNCHANGED <<detector, result, idsReturned, calls, switches, hvars>>

FeaturesNext ==
    \/ PitchCall
    \/ CentroidCall

SpecFeatures == FeaturesInit /\ [][FeaturesNext]_vars

(***************************************************************************)
(* The voice-activity predicate alone: detectVoiceActivity applied to one   *)
(* AudioFeatures value and one silenceThreshold, drawn from grids that     *)
(* hold the values on both sides of every comparison it makes.             *)
(***************************************************************************)
VadVolumes == {Vol(0), Vol(8), Vol(9), Vol(20), Vol(21), Vol(30), Vol(31)}
VadPitches == {NaN, 0, Hz(50), Hz(50) + 1, Hz(300), Hz(600) - 1, Hz(600)}
VadCentroids == {NaN, 0, Hz(100), Hz(100) + 1, Hz(800)}
VadThresholds == {Vol(8), Vol(30)}

VadInit ==
    /\ \E v \in VadVolumes, p \in VadPitches, c \in VadCentroids,
          t \in VadThresholds :
          probe = [features |-> Features(v, p, c), silenceThreshold |-> t,
                   called |-> FALSE, voiced |-> FALSE]
    /\ detector = createSpeakerDetector(0)
    /\ result = NoResult
    /\ idsReturned = {}
    /\ calls = 0
    /\ switches = 0
    /\ Mounted(0)
    /\ framesLeft = 0
    /\ startsLeft = 0

\* One call detectVoiceActivity(features, silenceThreshold).
VadCall ==
    /\ ~probe.called
    /\ probe' = [probe EXCEPT
                   !.called = TRUE,
                   !.voiced = detectVoiceActivity(probe.features,
                                                  probe.silenceThreshold)]
    /\ UNCHANGED <<detector, result, idsReturned, calls, switches, hvars>>

VadNext == VadCall

SpecVad == VadInit /\ [][VadNext]_vars

(***************************************************************************)
(* hooks/useAudioProcessor.ts: the hook.  Each action is one run of a      *)
(* handler from its start, or from an await, to its end or its next await: *)
(* JavaScript runs it without interleaving.  A handler closes over the     *)
(* values of the render that made it: start() schedules the                *)
(* processAudioFrame of its own render, whose status is the status at the  *)
(* time start() was called, and processAudioFrame reschedules itself.      *)
(* options.maxSpeakers is the same in every render.                        *)
(***************************************************************************)
HookFrames == {FrameSilent, FrameLow, FrameHigh, FrameNoPitch}

\* What the frame source delivers next: one frame, or a run of consecutive
\* frames of the low voice long enough to make a new profile stable.
HookInputs ==
    [features : HookFrames, run : {1}]
        \cup {[features |-> FrameLow, run |-> PROFILE_SAMPLES_THRESHOLD]}

\* The clock advances by one of these steps (milliseconds).
ClockSteps == {minSpeechDuration}

\* requestAnimationFrame(callback) followed by "animationFrameRef.current =":
\* the new callback is queued last and its id replaces the one held.
Schedule(queue, status_, beforeReset) ==
    Append([i \in DOMAIN queue |-> [queue[i] EXCEPT !.isRef = FALSE]],
           [status |-> status_, isRef |-> TRUE, beforeReset |-> beforeReset])

\* cancelAnimationFrame(animationFrameRef.current)
Cancel(queue) == SelectSeq(queue, LAMBDA cb : ~cb.isRef)

RemoveAt(seq, i) ==
    [j \in 1..(Len(seq) - 1) |-> IF j < i THEN seq[j] ELSE seq[j + 1]]

\* lastFrame.more counts the frames of a run still to come: nothing else
\* happens before they have come.
NoRun == lastFrame.more = 0

HookInit ==
    /\ \E k \in 0..MaxCap : Mounted(k)
    /\ framesLeft = MaxFrames
    /\ startsLeft = MaxStarts
    /\ DetectorCreated(0)
    /\ switches = 0

\* The hook when a session has just started and its processing loop is
\* live: mounted, start() called and run to its end (status is now
\* "running"; the callback it scheduled, made by the render with status
\* "idle", has returned at its guard), then start() called again and run to
\* its end.  Spec reaches this state.
SessionStarted(k) ==
    /\ maxSpeakers = k
    /\ status = "running"
    /\ speakers = <<>>
    /\ currentSpeakerId = NULL
    /\ audioFeatures = NoFeatures
    /\ error = NoError
    /\ isVoiceActive = FALSE
    /\ audioContextRef = TRUE
    /\ analyserRef = TRUE
    /\ streamRef = TRUE
    /\ animationFrameRef = TRUE
    /\ speakerDetectorRef = createSpeakerDetector(k)
    /\ lastSpeakerIdRef = NULL
    /\ lastSpeakingTimeRef = 0
    /\ speakersRef = <<>>
    /\ now = 0
    /\ rafQueue = <<[status |-> "running", isRef |-> TRUE,
                     beforeReset |-> FALSE]>>
    /\ pendingStarts = <<>>
    /\ lastOp = Op("other")
    /\ lastFrame = [features |-> NoFeatures, more |-> 0]
    /\ ledger = NoLedger
    /\ stopCalls = 0
    /\ timer = TimerMounted
    /\ pendingHandlers = <<>>

SessionInit ==
    /\ \E k \in 0..MaxCap : SessionStarted(k)
    /\ framesLeft = SessionFrames
    /\ startsLeft = 0
    /\ DetectorCreated(0)
    /\ switches = 0

Tick ==
    /\ NoRun
    /\ now < MaxTime
    /\ \E d \in ClockSteps :
          /\ now' = now + d
          /\ ledger' =
                IF status = "running"
                THEN [ledger EXCEPT
                        !.elapsed = @ + d,
                        !.noSpeaker =
                            IF lastSpeakerIdRef = NULL THEN @ + d ELSE @,
                        !.silent = IF isVoiceActive THEN @ ELSE @ + d]
                ELSE ledger
    /\ UNCHANGED <<lastOp, dvars, switches, avars, maxSpeakers, status,
                   speakers, currentSpeakerId, audioFeatures, error, isVoiceActive,
                   audioContextRef, analyserRef, streamRef, animationFrameRef,
                   speakerDetectorRef, lastSpeakerIdRef, lastSpeakingTimeRef,
                   speakersRef, rafQueue, pendingStarts, lastFrame,
                   framesLeft, startsLeft, stopCalls>>

\* start(), up to "await navigator.mediaDevices.getUserMedia(...)", as the
\* hook's state goes.
StartBegins ==
    /\ NoRun
    /\ startsLeft > 0
    /\ startsLeft' = startsLeft - 1
    /\ error' = NoError
    /\ pendingStarts' =
          Append(pendingStarts, [phase |-> "getUserMedia", status |-> status])
    /\ lastOp' = Op("other")
    /\ UNCHANGED <<dvars, switches, maxSpeakers, status, speakers,
                   currentSpeakerId, audioFeatures, isVoiceActive,
                   audioContextRef, analyserRef, streamRef, animationFrameRef,
                   speakerDetectorRef, lastSpeakerIdRef, lastSpeakingTimeRef,
                   speakersRef, now, rafQueue, lastFrame, ledger, framesLeft,
                   stopCalls>>

\* start() called on the hook, up to its first await.
StartCall == StartBegins /\ UNCHANGED avars

\* start(), from "Clear any existing speakers" to its end.
StartTail(i) ==
    /\ NoRun
    /\ speakersRef' = <<>>
    /\ speakers' = <<>>
    /\ speakerDetectorRef' = resetDetector(maxSpeakers)
    /\ lastSpeakerIdRef' = NULL
    /\ lastSpeakingTimeRef' = now
    /\ status' = "running"
    /\ rafQueue' = Schedule(rafQueue, pendingStarts[i].status, FALSE)
    /\ animationFrameRef' = TRUE
    /\ pendingStarts' = RemoveAt(pendingStarts, i)
    /\ lastOp' = [Op("start") EXCEPT !.from = status,
                                     !.cleared = Len(speakersRef)]
    /\ ledger' = NoLedger
    /\ stopCalls' = 0
    /\ UNCHANGED <<dvars, switches, maxSpeakers, currentSpeakerId,
                   audioFeatures, error, isVoiceActive, now, lastFrame,
                   framesLeft, startsLeft>>

\* getUserMedia resolves for the i-th suspended start() and the new
\* AudioContext is running: start() runs to its end.
StartGrantedAt(i) ==
    /\ pendingStarts[i].phase = "getUserMedia"
    /\ streamRef' = TRUE
    /\ audioContextRef' = TRUE
    /\ analyserRef' = TRUE
    /\ StartTail(i)

StartGranted ==
    \E i \in DOMAIN pendingStarts : StartGrantedAt(i) /\ UNCHANGED avars

\* getUserMedia resolves and the new AudioContext is suspended: start() runs
\* up to "await audioContext.resume()".
StartGrantedSuspended ==
    \E i \in DOMAIN pendingStarts :
        /\ NoRun
        /\ pendingStarts[i].phase = "getUserMedia"
        /\ streamRef' = TRUE
        /\ audioContextRef' = TRUE
        /\ analyserRef' = TRUE
        /\ pendingStarts' = [pendingStarts EXCEPT ![i].phase = "resume"]
        /\ lastOp' = Op("other")
        /\ UNCHANGED <<dvars, switches, avars, maxSpeakers, status, speakers,
                       currentSpeakerId, audioFeatures, error, isVoiceActive,
                       animationFrameRef, speakerDetectorRef, lastSpeakerIdRef,
                       lastSpeakingTimeRef, speakersRef, now, rafQueue,
                       lastFrame, ledger, framesLeft, startsLeft, stopCalls>>

\* audioContext.resume() resolves for the i-th suspended start(): start()
\* runs to its end.
StartResumedAt(i) ==
    /\ pendingStarts[i].phase = "resume"
    /\ StartTail(i)
    /\ UNCHANGED <<audioContextRef, analyserRef, streamRef>>

StartResumed ==
    \E i \in DOMAIN pendingStarts : StartResumedAt(i) /\ UNCHANGED avars

\* A faulty catch block: it also sets the status and clears the roster.
StartFailed_clearing ==
    \E i \in DOMAIN pendingStarts :
        /\ NoRun
        /\ error' = "denied"
        /\ status' = "idle"
        /\ speakers' = <<>>
        /\ speakersRef' = <<>>
        /\ pendingStarts' = RemoveAt(pendingStarts, i)
        /\ lastOp' = Op("other")
        /\ UNCHANGED <<dvars, switches, avars, maxSpeakers,
                       currentSpeakerId, audioFeatures, isVoiceActive,
                       audioContextRef, analyserRef, streamRef,
                       animationFrameRef, speakerDetectorRef, lastSpeakerIdRef,
                       lastSpeakingTimeRef, now, rafQueue,
                       lastFrame, ledger, framesLeft, startsLeft, stopCalls>>

\* The promise the i-th suspended start() awaits rejects (microphone access
\* denied): the catch block.
StartFailedAt(i) ==
    /\ NoRun
    /\ error' = "denied"
    /\ pendingStarts' = RemoveAt(pendingStarts, i)
    /\ lastOp' = Op("other")
    /\ UNCHANGED <<dvars, switches, maxSpeakers, status, speakers,
                   currentSpeakerId, audioFeatures, isVoiceActive,
                   audioContextRef, analyserRef, streamRef,
                   animationFrameRef, speakerDetectorRef, lastSpeakerIdRef,
                   lastSpeakingTimeRef, speakersRef, now, rafQueue,
                   lastFrame, ledger, framesLeft, startsLeft, stopCalls>>

StartFailed ==
    \E i \in DOMAIN pendingStarts : StartFailedAt(i) /\ UNCHANGED avars

\* The part of the hook's state processAudioFrame writes, as a record.
Core ==
    [speakerDetectorRef |-> speakerDetectorRef,
     speakersRef |-> speakersRef,
     speakers |-> speakers,
     lastSpeakerIdRef |-> lastSpeakerIdRef,
     lastSpeakingTimeRef |-> lastSpeakingTimeRef,
     currentSpeakerId |-> currentSpeakerId,
     lastOp |-> lastOp,
     ledger |-> ledger]

\* processAudioFrame at time t, voice active.
FrameVoiced(h, features, t, k) ==
    LET r == processSpeakerDetection(h.speakerDetectorRef, features)
        detectedSpeakerId == r.speakerId
        added == IF r.isNewSpeaker
                    /\ ~HasSpeaker(h.speakersRef, detectedSpeakerId)
                 THEN addSpeaker(h.speakersRef, detectedSpeakerId, k)
                 ELSE h.speakersRef
        closed == IF h.lastSpeakerIdRef # NULL
                     /\ h.lastSpeakerIdRef # detectedSpeakerId
                  THEN HandOff(added, h.lastSpeakerIdRef,
                               Elapsed(t, h.lastSpeakingTimeRef))
                  ELSE added
        changed == h.lastSpeakerIdRef # detectedSpeakerId
        marked == MarkActive(closed, detectedSpeakerId, t)
    IN  IF detectedSpeakerId >= 0 /\ detectedSpeakerId < k
        THEN [speakerDetectorRef |-> r.detector,
              speakersRef |-> marked,
              speakers |-> marked,
              lastSpeakerIdRef |-> detectedSpeakerId,
              lastSpeakingTimeRef |->
                  IF changed THEN t ELSE h.lastSpeakingTimeRef,
              currentSpeakerId |-> detectedSpeakerId,
              lastOp |-> [Op("frame") EXCEPT
                            !.voiceActive = TRUE,
                            !.speakerId = detectedSpeakerId,
                            !.notified = IF changed THEN detectedSpeakerId
                                         ELSE NULL],
              ledger |-> h.ledger]
        ELSE [h EXCEPT !.speakerDetectorRef = r.detector,
                       !.lastOp = [Op("frame") EXCEPT
                                     !.voiceActive = TRUE,
                                     !.speakerId = detectedSpeakerId]]

\* The roster the silence branch leaves when a speaker was active.
SilenceRoster(roster, lastSpeakerId, elapsed) ==
    IF LongEnough(elapsed)
    THEN Finalize(roster, lastSpeakerId, elapsed)
    ELSE roster

\* processAudioFrame at time t, no voice activity.
FrameSilence(h, t) ==
    LET elapsed == Elapsed(t, h.lastSpeakingTimeRef)
        closed == SilenceRoster(h.speakersRef, h.lastSpeakerIdRef, elapsed)
        op == Op("frame")
    IN  IF h.lastSpeakerIdRef # NULL
        THEN [h EXCEPT !.speakersRef = closed,
                       !.speakers = IF LongEnough(elapsed) THEN closed ELSE @,
                       !.lastSpeakerIdRef = NULL,
                       !.lastSpeakingTimeRef = t,
                       !.currentSpeakerId = NULL,
                       !.lastOp = op,
                       !.ledger.dropped =
                           IF LongEnough(elapsed) THEN @ ELSE @ + 1]
        ELSE [h EXCEPT !.currentSpeakerId = NULL, !.lastOp = op]

\* A faulty processAudioFrame: every frame goes to the clusterer.
processAudioFrame_noGate(h, features, t, k) == FrameVoiced(h, features, t, k)

\* processAudioFrame past its guard, on a frame with these features.
processAudioFrame(h, features, t, k) ==
    IF detectVoiceActivity(features, silenceThreshold)
    THEN FrameVoiced(h, features, t, k)
    ELSE FrameSilence(h, t)

\* The browser runs the oldest callback requestAnimationFrame holds.  The
\* callback returns at once when its guard fails, and is not rescheduled;
\* past the guard it processes what the frame source delivers, one of inputs.
RunCallback(inputs) ==
    /\ rafQueue # <<>>
    /\ LET callback == Head(rafQueue)
       IN  IF ~analyserRef \/ ~audioContextRef \/ callback.status # "running"
           THEN /\ rafQueue' = Tail(rafQueue)
                /\ lastOp' = Op("other")
                /\ UNCHANGED <<speakers, currentSpeakerId, audioFeatures,
                               isVoiceActive, animationFrameRef,
                               speakerDetectorRef, lastSpeakerIdRef,
                               lastSpeakingTimeRef, speakersRef, lastFrame,
                               ledger, framesLeft>>
           ELSE \E input \in inputs :
                \E h \in {processAudioFrame(Core, input.features, now,
                                            maxSpeakers)} :
                  LET features == input.features
                      n == input.run
                  IN  /\ IF NoRun
                         THEN /\ framesLeft > 0
                              /\ framesLeft' = framesLeft - 1
                              /\ lastFrame' =
                                    [features |-> features, more |-> n - 1]
                         ELSE /\ features = lastFrame.features
                              /\ n = 1
                              /\ framesLeft' = framesLeft
                              /\ lastFrame' =
                                    [lastFrame EXCEPT !.more = @ - 1]
                      /\ audioFeatures' = features
                      /\ isVoiceActive' =
                            detectVoiceActivity(features, silenceThreshold)
                      /\ speakerDetectorRef' = h.speakerDetectorRef
                      /\ speakersRef' = h.speakersRef
                      /\ speakers' = h.speakers
                      /\ lastSpeakerIdRef' = h.lastSpeakerIdRef
                      /\ lastSpeakingTimeRef' = h.lastSpeakingTimeRef
                      /\ currentSpeakerId' = h.currentSpeakerId
                      /\ lastOp' = h.lastOp
                      /\ ledger' = h.ledger
                      /\ rafQueue' = Schedule(Tail(rafQueue), callback.status,
                                              callback.beforeReset)
                      /\ animationFrameRef' = TRUE
    /\ UNCHANGED <<dvars, switches, avars, maxSpeakers, status, error,
                   audioContextRef, analyserRef, streamRef, now,
                   pendingStarts, startsLeft, stopCalls>>

\* A callback run on a frame whose sample buffers are valid.
ProcessAudioFrame == RunCallback(HookInputs)

\* A callback run on a frame whose time-domain buffer holds a NaN, or is
\* empty.
ProcessInvalidFrame ==
    RunCallback({[features |-> FrameInvalid, run |-> 1]})

\* The roster stop() leaves: "Finalize last speaker's time".
StoppedRoster ==
    IF lastSpeakerIdRef # NULL
    THEN Finalize(speakersRef, lastSpeakerIdRef,
                  Elapsed(now, lastSpeakingTimeRef))
    ELSE speakersRef

\* The callbacks left once stop() has cancelled the one it holds the id of.
StoppedQueue == IF animationFrameRef THEN Cancel(rafQueue) ELSE rafQueue

\* stop(), but for the roster, the status and the callbacks.
StopCommon ==
    /\ NoRun
    /\ animationFrameRef' = FALSE
    /\ analyserRef' = FALSE
    /\ audioContextRef' = FALSE
    /\ streamRef' = FALSE
    /\ currentSpeakerId' = NULL
    /\ isVoiceActive' = FALSE
    /\ UNCHANGED <<dvars, switches, maxSpeakers, lastSpeakingTimeRef, now,
                   pendingStarts, lastFrame, framesLeft, startsLeft>>

\* stop(), as the hook's state goes.
stop ==
    /\ stopCalls < MaxStops
    /\ stopCalls' = stopCalls + 1
    /\ StopCommon
    /\ rafQueue' = StoppedQueue
    /\ speakersRef' = StoppedRoster
    /\ speakers' = IF lastSpeakerIdRef # NULL THEN StoppedRoster ELSE speakers
    /\ status' = "stopped"
    /\ lastOp' = [Op("stop") EXCEPT !.repeat = (lastOp.op = "stop")]
    /\ UNCHANGED <<audioFeatures, error, speakerDetectorRef, lastSpeakerIdRef,
                   ledger>>

\* stop() called on the hook.
Stop == stop /\ UNCHANGED avars

\* reset(): stop(), then the roster, the detector and the rest are replaced.
reset ==
    /\ StopCommon
    /\ rafQueue' = [i \in DOMAIN StoppedQueue |->
                       [StoppedQueue[i] EXCEPT !.beforeReset = TRUE]]
    /\ speakers' = <<>>
    /\ speakersRef' = <<>>
    /\ audioFeatures' = NoFeatures
    /\ error' = NoError
    /\ status' = "idle"
    /\ speakerDetectorRef' = resetDetector(maxSpeakers)
    /\ lastSpeakerIdRef' = NULL
    /\ stopCalls' = 0
    /\ ledger' = NoLedger
    /\ lastOp' = [Op("reset") EXCEPT !.repeat = (lastOp.op = "reset")]

\* reset() called on the hook.
Reset == reset /\ UNCHANGED avars

Next ==
    \/ Tick
    \/ StartCall
    \/ StartGranted
    \/ StartGrantedSuspended
    \/ StartResumed
    \/ StartFailed
    \/ ProcessAudioFrame
    \/ Stop
    \/ Reset

Spec == HookInit /\ [][Next]_vars

\* One session: start() is not called again.
SessionNext ==
    \/ Tick
    \/ ProcessAudioFrame
    \/ Stop
    \/ Reset

SpecSession == SessionInit /\ [][SessionNext]_vars

\* A session in which start() is called again.
RestartInit ==
    /\ \E k \in 0..MaxCap : SessionStarted(k)
    /\ framesLeft = RestartFrames
    /\ startsLeft = RestartStarts
    /\ DetectorCreated(0)
    /\ switches = 0

\* The AudioContext is running when the microphone is granted.
RestartNext ==
    \/ Tick
    \/ StartCall
    \/ StartGranted
    \/ StartFailed
    \/ ProcessAudioFrame
    \/ Stop

SpecRestart == RestartInit /\ [][RestartNext]_vars

\* The hook when start() has been called again during the session that has
\* just started, and has run to its end: the callback of the first loop is
\* still held by requestAnimationFrame, and animationFrameRef holds the id
\* of the second loop's.  SpecRestart reaches this state.
TwoLoops(k) ==
    /\ maxSpeakers = k
    /\ status = "running"
    /\ speakers = <<>>
    /\ currentSpeakerId = NULL
    /\ audioFeatures = NoFeatures
    /\ error = NoError
    /\ isVoiceActive = FALSE
    /\ audioContextRef = TRUE
    /\ analyserRef = TRUE
    /\ streamRef = TRUE
    /\ animationFrameRef = TRUE
    /\ speakerDetectorRef = createSpeakerDetector(k)
    /\ lastSpeakerIdRef = NULL
    /\ lastSpeakingTimeRef = 0
    /\ speakersRef = <<>>
    /\ now = 0
    /\ rafQueue = <<[status |-> "running", isRef |-> FALSE,
                     beforeReset |-> FALSE],
                    [status |-> "running", isRef |-> TRUE,
                     beforeReset |-> FALSE]>>
    /\ pendingStarts = <<>>
    /\ lastOp = [Op("start") EXCEPT !.from = "running"]
    /\ lastFrame = [features |-> NoFeatures, more |-> 0]
    /\ ledger = NoLedger
    /\ stopCalls = 0
    /\ timer = TimerMounted
    /\ pendingHandlers = <<>>

OverlapInit ==
    /\ \E k \in 0..MaxCap : TwoLoops(k)
    /\ framesLeft = OverlapFrames
    /\ startsLeft = OverlapStarts
    /\ DetectorCreated(0)
    /\ switches = 0

\* Two loops, a further start() and reset().
OverlapNext ==
    \/ Tick
    \/ StartCall
    \/ StartGranted
    \/ StartGrantedSuspended
    \/ StartResumed
    \/ ProcessAudioFrame
    \/ Reset

SpecOverlap == OverlapInit /\ [][OverlapNext]_vars

\* SpecRestart reaches the state SpecOverlap starts from.
TwoLoopsUnreached ==
    ~ \E k \in 0..MaxCap : TwoLoops(k) /\ startsLeft = 0

\* One session in which the frame source also delivers invalid frames.
InvalidInit ==
    /\ \E k \in 0..MaxCap : SessionStarted(k)
    /\ framesLeft = InvalidFrames
    /\ startsLeft = 0
    /\ DetectorCreated(0)
    /\ switches = 0

InvalidNext ==
    \/ Tick
    \/ ProcessAudioFrame
    \/ ProcessInvalidFrame

SpecInvalid == InvalidInit /\ [][InvalidNext]_vars

\* Scenario A: one session with maxSpeakers = 2, fed BlockFrames frames of
\* the low voice and then BlockFrames frames of the higher voice, and
\* stopped once; the clock advances between frames at any point.
\* framesLeft counts the frames of the two blocks still to come.
ScenarioAInit ==
    /\ SessionStarted(2)
    /\ framesLeft = 2 * BlockFrames
    /\ startsLeft = 0
    /\ DetectorCreated(0)
    /\ switches = 0

InFirstBlock == framesLeft > BlockFrames

ScenarioAFrame ==
    RunCallback({[features |-> IF InFirstBlock THEN FrameLow ELSE FrameHigh,
                  run |-> 1]})

ScenarioAStop ==
    /\ framesLeft = 0
    /\ stopCalls = 0
    /\ Stop

ScenarioANext ==
    \/ Tick
    \/ ScenarioAFrame
    \/ ScenarioAStop

SpecScenarioA == ScenarioAInit /\ [][ScenarioANext]_vars

\* Scenario B: one session fed SilentFrames frames, each of them one that
\* detectVoiceActivity classifies as silent under the hook's threshold.
SilentKinds ==
    {f \in HookFrames \cup {FrameQuietVoice, FrameFaint, FrameInvalid} :
        ~detectVoiceActivity(f, silenceThreshold)}

ScenarioBInit ==
    /\ \E k \in 0..MaxCap : SessionStarted(k)
    /\ framesLeft = SilentFrames
    /\ startsLeft = 0
    /\ DetectorCreated(0)
    /\ switches = 0

ScenarioBFrame == RunCallback([features : SilentKinds, run : {1}])

ScenarioBNext ==
    \/ Tick
    \/ ScenarioBFrame

SpecScenarioB == ScenarioBInit /\ [][ScenarioBNext]_vars

\* Scenario C: one session fed ClusterFrames voiced frames in three
\* clusters, the low voice, then the higher voice, then the third voice;
\* each cluster lasts one frame or more, and the session may end before the
\* later ones have begun.
ScenarioCInit ==
    /\ \E k \in 0..MaxCap : SessionStarted(k)
    /\ framesLeft = ClusterFrames
    /\ startsLeft = 0
    /\ DetectorCreated(0)
    /\ switches = 0

\* The frames that may follow the last one (audioFeatures).
ClusterKinds ==
    IF audioFeatures = NoFeatures THEN {FrameLow}
    ELSE IF audioFeatures = FrameLow THEN {FrameLow, FrameHigh}
    ELSE IF audioFeatures = FrameHigh THEN {FrameHigh, FrameThird}
    ELSE {FrameThird}

ScenarioCFrame == RunCallback([features : ClusterKinds, run : {1}])

ScenarioCNext == ScenarioCFrame

SpecScenarioC == ScenarioCInit /\ [][ScenarioCNext]_vars

\* Spec reaches the state SpecSession starts from.
SessionStartedUnreached ==
    ~ \E k \in 0..MaxCap : SessionStarted(k) /\ startsLeft = 0

(***************************************************************************)
(* Claims about the clusterer.                                             *)
(***************************************************************************)
\* A step of SpecDetector that is a processSpeakerDetection call.
IsCall == calls' = calls + 1

\* C1: for a detector created with maxSpeakers = k, for any k, the number of
\* distinct non-negative speaker ids ever returned never exceeds k, and the
\* number of profiles never exceeds k.
C1_CapInvariant ==
    /\ Cardinality(idsReturned) <= detector.maxSpeakers
    /\ Cardinality(DOMAIN detector.profiles) <= detector.maxSpeakers

\* C2: a call whose frame the pitch gate rejects returns the previous
\* currentSpeakerId (or -1 if none) with isNew = false and confidence = 0 and
\* leaves every profile, currentSpeakerId and speakerCount as they were.
C2_RejectedFrameChangesNothing ==
    [][(IsCall /\ PitchRejected(detector'.lastFeatures)) =>
          /\ result'.speakerId = (IF detector.currentSpeakerId = NULL
                                  THEN -1 ELSE detector.currentSpeakerId)
          /\ result'.isNewSpeaker = FALSE
          /\ result'.confidence = 0
          /\ detector'.profiles = detector.profiles
          /\ detector'.currentSpeakerId = detector.currentSpeakerId
          /\ detector'.speakerCount = detector.speakerCount]_vars

\* C3: the profile key set is exactly 0 .. speakerCount-1 in every reachable
\* state; a new speaker gets the id equal to the number of profiles existing
\* at its creation, an id no profile has yet; and no call removes a profile.
C3_IdsSequentialNeverReused ==
    /\ [](DOMAIN detector.profiles = 0..(detector.speakerCount - 1))
    /\ [][IsCall =>
            /\ DOMAIN detector.profiles \subseteq DOMAIN detector'.profiles
            /\ result'.isNewSpeaker =>
                  /\ result'.speakerId = Cardinality(DOMAIN detector.profiles)
                  /\ result'.speakerId \notin DOMAIN detector.profiles
                  /\ DOMAIN detector'.profiles =
                        DOMAIN detector.profiles \cup {result'.speakerId}]_vars

\* C3's case: a second speaker has just been created beside the first.
C3_Witness ==
    /\ result.isNewSpeaker
    /\ result.speakerId = 1
    /\ detector.speakerCount = 2

(***************************************************************************)
(* Claims about the hook's frame processing, one session from its start    *)
(* (SpecSession).  The roster is the exposed React state speakers.         *)
(***************************************************************************)
\* A step that processes a frame past the guard of processAudioFrame.
IsFrame == <<framesLeft, lastFrame>>' # <<framesLeft, lastFrame>>

Entry(roster, speakerId) ==
    roster[CHOOSE i \in DOMAIN roster : roster[i].id = speakerId]

ActiveIds(roster) ==
    {roster[i].id : i \in {j \in DOMAIN roster : roster[j].isActive}}

RECURSIVE TotalTimeFrom(_, _)
TotalTimeFrom(roster, i) ==
    IF i > Len(roster) THEN 0
    ELSE roster[i].totalTime + TotalTimeFrom(roster, i + 1)

\* The sum of all speakers' totalTime.
TotalSpeakingTime(roster) == TotalTimeFrom(roster, 1)

\* C4: on a frame with voice inactive while a speaker is being timed
\* (lastSpeakerId non-null), now - lastSpeakingTime is added to that
\* speaker's totalTime if and only if it exceeds minSpeechDuration; in both
\* cases that speaker is marked inactive and lastSpeakerId and the exposed
\* currentSpeakerId become null.
C4_SilenceClosesInterval ==
    [][(IsFrame /\ ~isVoiceActive' /\ lastSpeakerIdRef # NULL) =>
          /\ HasSpeaker(speakers, lastSpeakerIdRef)
          /\ HasSpeaker(speakers', lastSpeakerIdRef)
          /\ LET elapsed == now - lastSpeakingTimeRef
                 before == Entry(speakers, lastSpeakerIdRef)
                 after == Entry(speakers', lastSpeakerIdRef)
             IN  /\ after.totalTime =
                       before.totalTime +
                          (IF elapsed > minSpeechDuration THEN elapsed ELSE 0)
                 /\ ~after.isActive
          /\ lastSpeakerIdRef' = NULL
          /\ currentSpeakerId' = NULL]_vars

\* C5: after any processed frame with voice inactive, every speaker in the
\* roster has isActive = false, whatever the length of the interval that
\* just ended.
C5_SilentFrameAllInactive ==
    (lastOp.op = "frame" /\ ~lastOp.voiceActive) =>
        \A i \in DOMAIN speakers : ~speakers[i].isActive

\* C6, as stated: after any processed frame with voice active, exactly one
\* speaker in the roster has isActive = true, it is the speaker the frame
\* was attributed to, and all others have isActive = false; this for every
\* voiced frame, those whose pitch the clusterer rejects included.
C6_VoicedFrameOneActive ==
    (lastOp.op = "frame" /\ lastOp.voiceActive) =>
        /\ ActiveIds(speakers) = {lastOp.speakerId}
        /\ Cardinality({i \in DOMAIN speakers : speakers[i].isActive}) = 1

\* C6, amended: after any processed frame with voice active that the
\* clusterer attributes to a speaker id in 0 .. maxSpeakers-1 (a frame whose
\* pitch it rejects is attributed to the detector's current speaker, if it
\* has one), exactly one speaker in the roster has isActive = true, it is
\* that speaker, and all others have isActive = false.
C6_AttributedFrameOneActive ==
    (/\ lastOp.op = "frame"
     /\ lastOp.voiceActive
     /\ lastOp.speakerId \in 0..(maxSpeakers - 1)) =>
        /\ ActiveIds(speakers) = {lastOp.speakerId}
        /\ Cardinality({i \in DOMAIN speakers : speakers[i].isActive}) = 1

\* C6's case: a voiced frame has been attributed to the second of two
\* speakers in the roster.
C6_Witness ==
    /\ lastOp.op = "frame"
    /\ lastOp.voiceActive
    /\ lastOp.speakerId = 1
    /\ Len(speakers) = 2
    /\ speakers[2].isActive

\* C7: on a voiced frame whose classified speaker differs from the speaker
\* being timed, that speaker's totalTime grows by now - lastSpeakingTime
\* whatever its length, that speaker becomes inactive, lastSpeakingTime
\* becomes now and onSpeakerChange is called with the new id (the last two
\* also when no speaker was being timed); when the classified speaker is
\* the one being timed, no totalTime changes, lastSpeakingTime is unchanged
\* and onSpeakerChange is not called.
C7_HandOff ==
    [][(/\ IsFrame
        /\ isVoiceActive'
        /\ lastOp'.speakerId \in 0..(maxSpeakers - 1)) =>
          LET detected == lastOp'.speakerId
          IN  IF detected # lastSpeakerIdRef
              THEN /\ lastSpeakingTimeRef' = now
                   /\ lastOp'.notified = detected
                   /\ lastSpeakerIdRef # NULL =>
                        /\ HasSpeaker(speakers, lastSpeakerIdRef)
                        /\ HasSpeaker(speakers', lastSpeakerIdRef)
                        /\ Entry(speakers', lastSpeakerIdRef).totalTime =
                              Entry(speakers, lastSpeakerIdRef).totalTime
                                 + (now - lastSpeakingTimeRef)
                        /\ ~Entry(speakers', lastSpeakerIdRef).isActive
              ELSE /\ Len(speakers') = Len(speakers)
                   /\ \A i \in DOMAIN speakers :
                         speakers'[i].totalTime = speakers[i].totalTime
                   /\ lastSpeakingTimeRef' = lastSpeakingTimeRef
                   /\ lastOp'.notified = NULL]_vars

\* C7's case: the second speaker has taken over from the first after an
\* interval no longer than minSpeechDuration, which the first has been
\* credited with.
C7_Witness ==
    /\ lastOp.op = "frame"
    /\ lastOp.notified = 1
    /\ Len(speakers) = 2
    /\ speakers[1].totalTime = minSpeechDuration
    /\ ~speakers[1].isActive

\* C8: within one session, each speaker's totalTime never decreases across
\* any sequence of processed frames and stop calls (the clock never runs
\* backwards).
C8_TotalTimeNeverDecreases ==
    [][lastOp'.op \in {"frame", "stop"} =>
          \A i \in DOMAIN speakers :
              /\ HasSpeaker(speakers', speakers[i].id)
              /\ Entry(speakers', speakers[i].id).totalTime
                    >= speakers[i].totalTime]_vars

\* C8's case: a first speaker has been credited by a hand-off and then a
\* second by the session's one stop().
C8_Witness ==
    /\ lastOp.op = "stop"
    /\ stopCalls = 1
    /\ Len(speakers) = 2
    /\ speakers[1].totalTime = minSpeechDuration
    /\ speakers[2].totalTime = minSpeechDuration

\* What the session's elapsed time exceeds the speaking time and the given
\* other time by, once the session has been stopped once.
InBalance(otherTime) ==
    (status = "stopped" /\ stopCalls = 1) =>
        LET gap == ledger.elapsed
                      - (TotalSpeakingTime(speakers) + otherTime)
        IN  /\ gap >= 0
            /\ gap <= minSpeechDuration * ledger.dropped

\* C9, as stated: for any session (start, any sequence of frames, stop) the
\* sum of all speakers' totalTime plus the total duration of silent
\* intervals equals the elapsed session duration, up to an error of at most
\* minSpeechDuration per speaking interval dropped by the silence debounce.
C9_ConservationWithSilence == InBalance(ledger.silent)

\* C9, amended: for any session (start, any sequence of frames, one stop)
\* the sum of all speakers' totalTime plus the total duration of the
\* intervals in which no speaker is current (after a silent frame, or after
\* a voiced frame attributed to no speaker, or before the first frame)
\* equals the elapsed session duration, up to an error of at most
\* minSpeechDuration per speaking interval dropped by the silence debounce;
\* no interval of time is counted twice.
C9_ConservationWithNoSpeaker == InBalance(ledger.noSpeaker)

\* C9's case: a session has been stopped in which a speaker was credited,
\* an interval was dropped and some time passed with no speaker current.
C9_Witness ==
    /\ status = "stopped"
    /\ stopCalls = 1
    /\ TotalSpeakingTime(speakers) > 0
    /\ ledger.dropped > 0
    /\ ledger.noSpeaker > 0

(***************************************************************************)
(* Claims about the hook's controls, from the mounted hook (Spec).         *)
(***************************************************************************)
\* What reset() leaves of the hook's state and refs.
HookState ==
    <<status, speakers, speakersRef, speakerDetectorRef, currentSpeakerId,
      audioFeatures, error, isVoiceActive, audioContextRef, analyserRef,
      streamRef, animationFrameRef, lastSpeakerIdRef, lastSpeakingTimeRef,
      rafQueue, pendingStarts>>

\* C10: calling reset twice in a row from any state yields the same state
\* as calling it once, and that state is the initial empty state: empty
\* roster, a fresh detector with no profiles and speakerCount 0, no current
\* speaker, status idle, no error, no captured features.
C10_ResetIdempotent ==
    /\ [](lastOp.op = "reset" =>
            /\ speakers = <<>>
            /\ speakersRef = <<>>
            /\ speakerDetectorRef = createSpeakerDetector(maxSpeakers)
            /\ DOMAIN speakerDetectorRef.profiles = {}
            /\ speakerDetectorRef.speakerCount = 0
            /\ currentSpeakerId = NULL
            /\ lastSpeakerIdRef = NULL
            /\ status = "idle"
            /\ error = NoError
            /\ audioFeatures = NoFeatures)
    /\ [][(lastOp'.op = "reset" /\ lastOp'.repeat) =>
             UNCHANGED HookState]_vars

\* C10's case: reset() has been called right after reset().
C10_Witness ==
    /\ lastOp.op = "reset"
    /\ lastOp.repeat

(***************************************************************************)
(* Claims about stop() and start().                                        *)
(***************************************************************************)
\* A step that is a call of stop().
IsStop == stopCalls' = stopCalls + 1

\* C11: stop finalizes the in-flight speaking interval without discarding
\* accumulated time: after stop the roster contains the same speakers as
\* before, the speaker who was active has totalTime increased by exactly
\* now - lastSpeakingTime, every other speaker's totalTime is unchanged, all
\* speakers are inactive, the exposed current speaker is null and status is
\* stopped.
C11_StopFinalizes ==
    [][IsStop =>
          /\ Len(speakers') = Len(speakers)
          /\ \A i \in DOMAIN speakers :
                /\ speakers'[i].id = speakers[i].id
                /\ speakers'[i].totalTime =
                      speakers[i].totalTime +
                         (IF speakers[i].isActive
                          THEN now - lastSpeakingTimeRef ELSE 0)
                /\ ~speakers'[i].isActive
          /\ currentSpeakerId' = NULL
          /\ status' = "stopped"]_vars

\* C12: a successful start, from any prior state (idle, stopped with a
\* non-empty roster, or running), leaves the roster empty, the detector with
\* no profiles, speakerCount 0 and maxSpeakers equal to the configured cap,
\* no previously active speaker, and status running, until the first frame
\* of the new session is processed.
C12_StartLeavesFreshSession ==
    lastOp.op = "start" =>
        /\ speakers = <<>>
        /\ speakersRef = <<>>
        /\ DOMAIN speakerDetectorRef.profiles = {}
        /\ speakerDetectorRef.speakerCount = 0
        /\ speakerDetectorRef.maxSpeakers = maxSpeakers
        /\ speakerDetectorRef.currentSpeakerId = NULL
        /\ lastSpeakerIdRef = NULL
        /\ status = "running"

\* C12's case: start() has run to its end in a stopped session whose roster
\* was not empty.
C12_Witness ==
    /\ lastOp.op = "start"
    /\ lastOp.from = "stopped"
    /\ lastOp.cleared > 0

(***************************************************************************)
(* Claims about reset() among frame callbacks and awaiting start() calls.  *)
(***************************************************************************)
Ids(roster) == {roster[i].id : i \in DOMAIN roster}

\* C13: reset is atomic with respect to frame processing: in every
\* interleaving of reset with frame callbacks and with a start that is
\* still awaiting, no frame is processed against a state in which the roster
\* has been cleared but the detector has not (or the reverse), and after
\* reset no frame callback of the old session mutates the roster or the
\* detector (no callback of a loop that reset found running processes a
\* frame).
C13_ResetAtomic ==
    [][IsFrame =>
          /\ (speakersRef = <<>>) <=> (DOMAIN speakerDetectorRef.profiles = {})
          /\ ~Head(rafQueue).beforeReset]_vars

(***************************************************************************)
(* Claims about errors.                                                    *)
(***************************************************************************)
\* C14: a frame with invalid input (zero-length buffer, non-finite sample
\* values such as NaN, or a buffer length that does not match the FFT size)
\* fails with InvalidInput and mutates no profile and no roster entry.
C14_InvalidFrameRejected ==
    [][(IsFrame /\ audioFeatures' = FrameInvalid) =>
          /\ error' = "InvalidInput"
          /\ speakers' = speakers
          /\ speakersRef' = speakersRef
          /\ speakerDetectorRef'.profiles = speakerDetectorRef.profiles]_vars

\* C15: starting a session with maxSpeakers <= 0 is rejected with a
\* ConfigurationError at start, before any frame is processed: the session
\* does not become running and no frame is ever classified with such a cap.
C15_NonPositiveCapRejected ==
    maxSpeakers <= 0 =>
        /\ status # "running"
        /\ speakerDetectorRef.lastFeatures = NoFeatures

\* A step in which an awaiting start() fails.
IsStartFailed ==
    /\ Len(pendingStarts') < Len(pendingStarts)
    /\ rafQueue' = rafQueue

\* C16: if acquiring the audio source fails during start (for example
\* microphone permission denied), the only effect is that error is set to
\* the failure message: status does not become running (it stays what it
\* was), the roster and the detector are unchanged, and no processing loop
\* is scheduled.
C16_FailedStartOnlySetsError ==
    [][IsStartFailed =>
          /\ error' = "denied"
          /\ UNCHANGED <<status, speakers, speakersRef, speakerDetectorRef,
                         currentSpeakerId, lastSpeakerIdRef,
                         lastSpeakingTimeRef, audioFeatures, isVoiceActive,
                         audioContextRef, analyserRef, streamRef,
                         animationFrameRef, rafQueue>>]_vars

\* C16's case: a start() has failed during a session whose roster is not
\* empty, and the session goes on.
C16_Witness ==
    /\ error = "denied"
    /\ pendingStarts = <<>>
    /\ speakers # <<>>
    /\ status = "running"
    /\ rafQueue # <<>>

(***************************************************************************)
(* Claims about the voice-activity predicate (SpecVad).                    *)
(***************************************************************************)
\* C17: detectVoiceActivity returns voiced if and only if volume > 0.02, or
\* volume > silenceThreshold and (50 < pitch < 600 or spectralCentroid >
\* 100); in particular volume > 0.02 gives voiced for every pitch and
\* centroid value, and volume <= min(silenceThreshold, 0.02) gives silent.
C17_VoiceActivityIff ==
    probe.called =>
        LET volume == probe.features.volume
            pitch == probe.features.pitch
            centroid == probe.features.spectralCentroid
            threshold == probe.silenceThreshold
        IN  /\ probe.voiced <=>
                  \/ volume > Vol(20)
                  \/ /\ volume > threshold
                     /\ \/ pitch # NaN /\ Hz(50) < pitch /\ pitch < Hz(600)
                        \/ centroid # NaN /\ centroid > Hz(100)
            /\ volume > Vol(20) => probe.voiced
            /\ volume <= Min(threshold, Vol(20)) => ~probe.voiced

\* C17's case: a frame no louder than 0.02 has been found voiced by its
\* pitch alone, under the default threshold.
C17_Witness ==
    /\ probe.called
    /\ probe.voiced
    /\ probe.silenceThreshold = Vol(8)
    /\ probe.features.volume = Vol(20)
    /\ probe.features.pitch = Hz(300)
    /\ probe.features.spectralCentroid = 0

(***************************************************************************)
(* Claims about whole sessions (SpecScenarioA).                            *)
(***************************************************************************)
\* The time the session has been running since its first frame.
SinceFirstFrame == ledger.elapsed - ledger.noSpeaker

\* C18: in a session with maxSpeakers = 2 fed 200 voiced frames of pitch 120
\* Hz, centroid 800 Hz and then 200 voiced frames of pitch 220 Hz, centroid
\* 1500 Hz, every frame of the first block is attributed to speaker 0 and
\* every frame of the second block to speaker 1; the speakers created are
\* exactly 0 and 1 and no id 2 ever appears; speaker 0's totalTime is the
\* first block's duration (from its first frame to the second block's first
\* frame), and after stop speaker 1's totalTime is the second block's
\* duration (from its first frame to stop).
C18_ScenarioA ==
    [][/\ (IsFrame /\ InFirstBlock) =>
            /\ lastOp'.speakerId = 0
            /\ currentSpeakerId' = 0
            /\ Ids(speakers') = {0}
       /\ (IsFrame /\ ~InFirstBlock) =>
            /\ lastOp'.speakerId = 1
            /\ currentSpeakerId' = 1
            /\ Ids(speakers') = {0, 1}
            /\ Entry(speakers', 0).totalTime
                  = IF framesLeft = BlockFrames THEN SinceFirstFrame
                    ELSE Entry(speakers, 0).totalTime
            /\ Entry(speakers', 1).totalTime = 0
       /\ IsStop =>
            /\ Ids(speakers') = {0, 1}
            /\ Entry(speakers', 0).totalTime = Entry(speakers, 0).totalTime
            /\ Entry(speakers', 1).totalTime
                  = SinceFirstFrame - Entry(speakers, 0).totalTime
       /\ Ids(speakers') \subseteq {0, 1}
       /\ DOMAIN speakerDetectorRef'.profiles \subseteq {0, 1}
       /\ speakerDetectorRef'.speakerCount <= 2]_vars

\* C18's case: the session has been stopped after both blocks, each of
\* which lasted some time.
C18_Witness ==
    /\ framesLeft = 0
    /\ stopCalls = 1
    /\ status = "stopped"
    /\ Ids(speakers) = {0, 1}
    /\ Entry(speakers, 0).totalTime = minSpeechDuration
    /\ Entry(speakers, 1).totalTime = minSpeechDuration


(***************************************************************************)
(* Claims about sessions of silent frames (SpecScenarioB).                 *)
(***************************************************************************)
\* C19: a frame the VAD classifies as silent never reaches the clusterer
\* (the detector is left as it was); through any sequence of silent frames
\* only, the detector keeps zero profiles, the roster stays empty and the
\* current speaker stays null.
C19_SilentFramesNeverClustered ==
    [][IsFrame =>
          /\ ~isVoiceActive'
          /\ speakerDetectorRef' = speakerDetectorRef
          /\ DOMAIN speakerDetectorRef'.profiles = {}
          /\ speakerDetectorRef'.speakerCount = 0
          /\ speakers' = <<>>
          /\ speakersRef' = <<>>
          /\ currentSpeakerId' = NULL
          /\ lastSpeakerIdRef' = NULL]_vars

\* C19's case: a session with room for speakers has taken all its frames,
\* the last one a frame of a voice at the silence threshold.
C19_Witness ==
    /\ framesLeft = 0
    /\ maxSpeakers = MaxCap
    /\ now > 0
    /\ audioFeatures = FrameQuietVoice
    /\ ~isVoiceActive
    /\ speakers = <<>>


(***************************************************************************)
(* Claims about the speaker cap (SpecScenarioC).                           *)
(***************************************************************************)
\* The similarity detectSpeaker computes between a frame and profile i.
SimilarityTo(d, features, i) == calculateSimilarity(features, d.profiles[i])

\* Profile id exists and no profile is more similar to the frame.
MostSimilar(d, features, id) ==
    /\ id \in DOMAIN d.profiles
    /\ \A j \in DOMAIN d.profiles :
          SimilarityTo(d, features, j) <= SimilarityTo(d, features, id)

\* The cap is reached and the frame, of an accepted pitch, matches no
\* profile: every similarity is below 0.4.
AtCapUnmatched(d, features) ==
    /\ d.speakerCount >= d.maxSpeakers
    /\ ~PitchRejected(features)
    /\ \A j \in DOMAIN d.profiles :
          SimilarityTo(d, features, j) < SPEAKER_CHANGE_THRESHOLD

\* The cap fallback: the frame goes to the most similar profile (id 0 if no
\* profile scored above 0) and no profile is created.
FallsBack(d, features, id, after) ==
    /\ DOMAIN after.profiles = DOMAIN d.profiles
    /\ after.speakerCount = d.speakerCount
    /\ IF \E j \in DOMAIN d.profiles : SimilarityTo(d, features, j) > 0
       THEN MostSimilar(d, features, id)
       ELSE id = 0

\* C20 as stated: when the cap is reached and the best similarity is below
\* 0.4 the frame is attributed to the most similar existing profile (id 0 if
\* none scored above 0) and no profile is created; and with maxSpeakers = 2
\* and three distinct clusters fed in sequence, at every frame of the third
\* cluster exactly two profiles exist and the frame is attributed to the
\* more similar of the two.
C20_ThreeClustersTwoProfiles ==
    [][IsFrame =>
          /\ AtCapUnmatched(speakerDetectorRef, audioFeatures') =>
                FallsBack(speakerDetectorRef, audioFeatures',
                          lastOp'.speakerId, speakerDetectorRef')
          /\ (maxSpeakers = 2 /\ audioFeatures' = FrameThird) =>
                /\ DOMAIN speakerDetectorRef.profiles = {0, 1}
                /\ DOMAIN speakerDetectorRef'.profiles = {0, 1}
                /\ MostSimilar(speakerDetectorRef, audioFeatures',
                               lastOp'.speakerId)]_vars

\* The frames the session has been fed.
FramesFed == ClusterFrames - framesLeft

\* C20, amended: the cap fallback as stated; and with maxSpeakers = 2 and
\* three distinct clusters fed in sequence, the first of them for at least
\* 10 frames (so that its profile is stable when the second begins), the
\* second cluster's first frame creates profile 1, and at every frame of the
\* third cluster exactly two profiles exist and the frame is attributed to
\* the more similar of the two.  No profile beyond maxSpeakers is created
\* in any case.  (The first cluster has lasted 10 frames or more exactly
\* when profile 0 has 10 samples or more and still has the first cluster's
\* pitch: a shorter first cluster leaves a profile that takes the second
\* cluster's frames as well.)
C20_CapFallback ==
    [][IsFrame =>
          /\ AtCapUnmatched(speakerDetectorRef, audioFeatures') =>
                FallsBack(speakerDetectorRef, audioFeatures',
                          lastOp'.speakerId, speakerDetectorRef')
          /\ (maxSpeakers = 2 /\ audioFeatures = FrameLow
                /\ audioFeatures' = FrameHigh
                /\ FramesFed >= PROFILE_SAMPLES_THRESHOLD) =>
                /\ lastOp'.speakerId = 1
                /\ DOMAIN speakerDetectorRef'.profiles = {0, 1}
          /\ (maxSpeakers = 2 /\ audioFeatures' = FrameThird
                /\ speakerDetectorRef.profiles[0].samples
                      >= PROFILE_SAMPLES_THRESHOLD
                /\ speakerDetectorRef.profiles[0].avgPitch = FrameLow.pitch) =>
                /\ DOMAIN speakerDetectorRef.profiles = {0, 1}
                /\ DOMAIN speakerDetectorRef'.profiles = {0, 1}
                /\ MostSimilar(speakerDetectorRef, audioFeatures',
                               lastOp'.speakerId)
          /\ Cardinality(DOMAIN speakerDetectorRef'.profiles)
                <= Max(0, maxSpeakers)]_vars

\* C20's case: with two stable profiles and the cap of 2 reached, the first
\* frame of the third cluster has matched neither and has gone to profile 1.
C20_Witness ==
    /\ maxSpeakers = 2
    /\ audioFeatures = FrameThird
    /\ lastOp.speakerId = 1
    /\ DOMAIN speakerDetectorRef.profiles = {0, 1}
    /\ speakerDetectorRef.profiles[0].samples >= PROFILE_SAMPLES_THRESHOLD
    /\ speakerDetectorRef.profiles[1].samples = PROFILE_SAMPLES_THRESHOLD + 1
    /\ speakerDetectorRef.profiles[1].avgPitch > FrameHigh.pitch


(***************************************************************************)
(* Claims about the roster (SpecSession).                                  *)
(***************************************************************************)
\* The number of records of the roster with this id.
Records(roster, speakerId) ==
    Cardinality({i \in DOMAIN roster : roster[i].id = speakerId})

\* C21: every speaker id to which a voiced frame is attributed has exactly
\* one record in the roster after that frame; the record is created the
\* first time the id appears, with totalTime 0, and no id ever has two
\* records; after every processed frame the set of roster ids equals the set
\* of detector profile ids.
C21_OneRecordPerSpeaker ==
    [][IsFrame =>
          /\ (lastOp'.voiceActive /\ lastOp'.speakerId \in 0..(maxSpeakers - 1))
                => /\ Records(speakersRef', lastOp'.speakerId) = 1
                   /\ Records(speakers', lastOp'.speakerId) = 1
                   /\ ~HasSpeaker(speakersRef, lastOp'.speakerId)
                         => Entry(speakersRef', lastOp'.speakerId).totalTime = 0
          /\ \A id \in Ids(speakersRef') : Records(speakersRef', id) = 1
          /\ Ids(speakersRef) \subseteq Ids(speakersRef')
          /\ Ids(speakersRef') = DOMAIN speakerDetectorRef'.profiles
          /\ Ids(speakers') = DOMAIN speakerDetectorRef'.profiles]_vars

\* C21's case: a second speaker's record has just been created, next to the
\* first speaker's record, which holds time.
C21_Witness ==
    /\ lastOp.op = "frame"
    /\ lastOp.speakerId = 1
    /\ Ids(speakersRef) = {0, 1}
    /\ DOMAIN speakerDetectorRef.profiles = {0, 1}
    /\ Entry(speakersRef, 1).totalTime = 0
    /\ Entry(speakersRef, 0).totalTime > 0
    /\ speakerDetectorRef.profiles[1].samples = 1


\* C22: in every reachable state the exposed roster is strictly ascending
\* by speaker id (sorted, no duplicate ids); so is the roster the ref holds.
C22_RosterAscending ==
    /\ \A i, j \in DOMAIN speakers : i < j => speakers[i].id < speakers[j].id
    /\ \A i, j \in DOMAIN speakersRef :
          i < j => speakersRef[i].id < speakersRef[j].id

\* C22's case: the exposed roster holds two speakers.
C22_Witness ==
    /\ Len(speakers) = 2
    /\ speakers[1].id = 0
    /\ speakers[2].id = 1
    /\ status = "running"


C24_OutsidePitchRangeInert ==
    [][(IsCall /\ ~(Hz(60) < detector'.lastFeatures.pitch
                     /\ detector'.lastFeatures.pitch < Hz(400)))
          => /\ ~result'.isNewSpeaker
             /\ DOMAIN detector'.profiles = DOMAIN detector.profiles
             /\ detector'.currentSpeakerId = detector.currentSpeakerId]_vars


(***************************************************************************)
(* Claims about the decision of detectSpeaker (SpecMatch).                 *)
(***************************************************************************)
\* The largest similarity of the frame to a profile of d, 0 with no profile.
MaxSimilarity(d, features) ==
    IF DOMAIN d.profiles = {} THEN 0
    ELSE LET sims == {SimilarityTo(d, features, i) : i \in DOMAIN d.profiles}
         IN  CHOOSE m \in sims : \A x \in sims : x <= m

\* The lowest id among the profiles of d most similar to the frame.
LowestMostSimilar(d, features) ==
    LET best == {i \in DOMAIN d.profiles :
                    SimilarityTo(d, features, i) = MaxSimilarity(d, features)}
    IN  CHOOSE i \in best : \A j \in best : i <= j

\* C25: for a frame accepted by the pitch gate, detectSpeaker reports a new
\* speaker (isNew = true, id = the current profile count) if and only if
\* the maximum similarity over all existing profiles is below 0.4 and fewer
\* than maxSpeakers profiles exist; when the maximum similarity is at least
\* 0.4 it returns the id of a profile whose similarity is maximal (the
\* lowest such id on ties) with isNew = false.
C25_NewSpeakerIff ==
    [][(IsCall /\ ~PitchRejected(detector'.lastFeatures)) =>
          LET features == detector'.lastFeatures
              count == Cardinality(DOMAIN detector.profiles)
              maxSim == MaxSimilarity(detector, features)
          IN  /\ result'.isNewSpeaker <=>
                    (maxSim < Tenths(4) /\ count < detector.maxSpeakers)
              /\ result'.isNewSpeaker => result'.speakerId = count
              /\ maxSim >= Tenths(4) =>
                    /\ ~result'.isNewSpeaker
                    /\ result'.speakerId = LowestMostSimilar(detector, features)
                    /\ result'.confidence = maxSim]_vars

\* C25's case: a frame as similar to the stable profile 0 as to the new
\* profile 1 (0.5 both) has gone to speaker 0.
C25_Witness ==
    /\ detector.lastFeatures = FrameBetween
    /\ DOMAIN detector.profiles = {0, 1}
    /\ detector.profiles[1].samples = 1
    /\ detector.profiles[0].samples = PROFILE_SAMPLES_THRESHOLD + 1
    /\ result.speakerId = 0
    /\ ~result.isNewSpeaker
    /\ result.confidence = Tenths(5)


(***************************************************************************)
(* Claims about the similarity (SpecSimilarity).                           *)
(***************************************************************************)
\* max(0, 1 - diff / tolerance), times the tolerance (tenths of a hertz).
Closeness(diff, tolerance) == IF diff >= tolerance THEN 0 ELSE tolerance - diff

\* C26: calculateSimilarity returns exactly 0.5 for every profile with fewer
\* than 10 samples regardless of the features, and for profiles with at
\* least 10 samples returns 0.6 * max(0, 1 - |pitch - avgPitch| / 150)
\* + 0.4 * max(0, 1 - |centroid - avgCentroid| / 1000); the result is always
\* within [0, 1].  (A similarity s is held as s * 10 * 1500 * 10000, so
\* that 0.6 * a / 1500 + 0.4 * b / 10000 is 6 * a * 10000 + 4 * b * 1500.)
C26_SimilarityFormula ==
    probe.called =>
        LET pitchDiff == Abs(probe.features.pitch - probe.profile.avgPitch)
            centroidDiff == Abs(probe.features.spectralCentroid
                                  - probe.profile.avgSpectralCentroid)
        IN  /\ probe.profile.samples < 10 =>
                  2 * probe.similarity = 10 * 1500 * 10000
            /\ probe.profile.samples >= 10 =>
                  probe.similarity
                     = 6 * Closeness(pitchDiff, 1500) * 10000
                         + 4 * Closeness(centroidDiff, 10000) * 1500
            /\ probe.similarity >= 0
            /\ probe.similarity <= 10 * 1500 * 10000

\* C26's case: a stable profile and a frame half-way out of both bands give
\* the similarity 0.5 by the formula.
C26_Witness ==
    /\ probe.called
    /\ probe.profile.samples = PROFILE_SAMPLES_THRESHOLD
    /\ probe.profile.avgPitch = Hz(120)
    /\ probe.profile.avgSpectralCentroid = Hz(800)
    /\ probe.features = FrameBetween
    /\ probe.similarity = Tenths(5)


(***************************************************************************)
(* Claims about the profiles (SpecMatch).                                  *)
(***************************************************************************)
\* The profiles of either map that are not the same in both.
ChangedProfiles(before, after) ==
    {i \in (DOMAIN before) \cup (DOMAIN after) :
        \/ i \notin DOMAIN before
        \/ i \notin DOMAIN after
        \/ before[i] # after[i]}

\* new is old moved towards x with weight alpha = min(0.1, 1/(samples+1)),
\* in whole tenths of a hertz: new = floor(old * (1 - alpha) + x * alpha).
MovedByEMA(old, x, samples, new) ==
    LET inv == IF samples + 1 > 10 THEN samples + 1 ELSE 10
    IN  /\ inv * new <= old * (inv - 1) + x
        /\ old * (inv - 1) + x < inv * new + inv

\* What C27 says of a frame the clusterer has given to speaker id.
ProfileStep(before, after, features, id, isNew) ==
    /\ ChangedProfiles(before, after) = {id}
    /\ isNew =>
          /\ id \notin DOMAIN before
          /\ after[id].samples = 1
          /\ after[id].pitchVariance = 0
          /\ after[id].avgPitch = features.pitch
          /\ after[id].avgSpectralCentroid = features.spectralCentroid
    /\ ~isNew =>
          /\ id \in DOMAIN before
          /\ after[id].samples = before[id].samples + 1
          /\ MovedByEMA(before[id].avgPitch, features.pitch,
                        before[id].samples, after[id].avgPitch)
          /\ MovedByEMA(before[id].avgSpectralCentroid,
                        features.spectralCentroid,
                        before[id].samples, after[id].avgSpectralCentroid)

\* A profile's samples count never decreases.
SamplesGrow(before, after) ==
    \A i \in DOMAIN before :
        i \in DOMAIN after /\ after[i].samples >= before[i].samples

\* C27: each frame accepted by the pitch gate changes exactly one profile
\* and leaves all others unchanged: a new speaker gets a profile with
\* samples = 1, pitchVariance = 0 and averages equal to the frame's pitch
\* and centroid; a matched speaker's profile has samples increased by
\* exactly 1 and its averages moved by the EMA with alpha
\* = min(0.1, 1/(samples+1)).  A profile's samples count never decreases.
C27_OneProfilePerFrame ==
    [][(IsCall /\ ~PitchRejected(detector'.lastFeatures)) =>
          /\ ProfileStep(detector.profiles, detector'.profiles,
                         detector'.lastFeatures, result'.speakerId,
                         result'.isNewSpeaker)
          /\ SamplesGrow(detector.profiles, detector'.profiles)]_vars


(***************************************************************************)
(* Claims about the feature functions (SpecFeatures).                      *)
(***************************************************************************)
\* C28: for every sample buffer and sample rate, estimatePitch returns
\* either 0 or sampleRate / p for an integer lag p with floor(sampleRate /
\* 500) <= p <= floor(sampleRate / 50) and p < buffer length, so a non-zero
\* pitch lies within [sampleRate / maxPeriod, sampleRate / minPeriod].
C28_PitchBounds ==
    (probe.called /\ probe.function = "estimatePitch") =>
        LET sampleRate == probe.sampleRate
            minPeriod == sampleRate \div 500
            maxPeriod == sampleRate \div 50
            pitch == probe.returned
        IN  \/ pitch = [num |-> 0, den |-> 1]
            \/ /\ pitch.num = sampleRate
               /\ pitch.den >= 1
               /\ minPeriod <= pitch.den
               /\ pitch.den <= maxPeriod
               /\ pitch.den < Len(probe.dataArray)
               \* sampleRate / maxPeriod <= pitch <= sampleRate / minPeriod
               /\ sampleRate * pitch.den <= pitch.num * maxPeriod
               /\ pitch.num * minPeriod <= sampleRate * pitch.den

\* C28's case: a buffer that repeats with period 2, at a rate for which the
\* lags searched begin at 2, has the pitch sampleRate / 2.
C28_Witness ==
    /\ probe.called
    /\ probe.function = "estimatePitch"
    /\ probe.sampleRate = 1000
    /\ probe.dataArray = <<4, -4, 4, -4, 4>>
    /\ probe.returned = [num |-> 1000, den |-> 2]


\* Every element of the sequence is 0.
AllZero(data) == \A i \in DOMAIN data : data[i] = 0

\* None of the lags estimatePitch searches has a correlation greater than 0.
NeverCorrelated(dataArray, sampleRate) ==
    \A period \in (sampleRate \div 500)..((sampleRate \div 50) - 1) :
        period < Len(dataArray) => ~Gt(Correlation(dataArray, period), 0)

\* C29: zero-energy input is resolved to the sentinel 0 and never to an
\* error or a non-number: an all-zero magnitude spectrum gives spectral
\* centroid 0, and an all-zero (or never positively correlated) sample
\* buffer gives pitch 0.  What either function returns is a number in every
\* case.
C29_ZeroEnergyGivesZero ==
    probe.called =>
        /\ probe.returned.den # 0
        /\ AllZero(probe.dataArray) => probe.returned = [num |-> 0, den |-> 1]
        /\ (probe.function = "estimatePitch"
              /\ NeverCorrelated(probe.dataArray, probe.sampleRate))
                 => probe.returned = [num |-> 0, den |-> 1]

\* C29's case: the centroid of an all-zero spectrum of three bins has been
\* computed.
C29_Witness ==
    /\ probe.called
    /\ probe.function = "calculateSpectralCentroid"
    /\ probe.dataArray = <<0, 0, 0>>
    /\ probe.sampleRate > 0
    /\ probe.returned = [num |-> 0, den |-> 1]


(***************************************************************************)
(* Claims about the processing loop (Spec).                                *)
(***************************************************************************)
\* C30: after start() completes successfully and status becomes "running",
\* frames are actually processed: the frame callback that start() schedules
\* passes its status guard (it sees the status "running"), and so processes
\* the frame and reschedules itself.
C30_StartedLoopRuns ==
    (lastOp.op = "start" /\ status = "running") =>
        /\ rafQueue # <<>>
        /\ rafQueue[Len(rafQueue)].isRef
        /\ rafQueue[Len(rafQueue)].status = "running"


(***************************************************************************)
(* Claims about stop() and the callbacks still held (SpecSession, Spec).   *)
(***************************************************************************)
\* C31: stop is idempotent on speaking time: a stop() call made when stop()
\* has already been called since the last start leaves every speaker's
\* totalTime unchanged, so the in-flight interval the first stop finalized
\* is counted exactly once.
C31_StopIdempotentOnTime ==
    [][(IsStop /\ stopCalls >= 1) =>
          /\ Len(speakers') = Len(speakers)
          /\ \A i \in DOMAIN speakers :
                speakers'[i].totalTime = speakers[i].totalTime]_vars


\* The part of the hook's state a frame callback may write that C32 names:
\* the roster, the detector and the current speaker.
Attribution ==
    <<speakers, speakersRef, speakerDetectorRef, currentSpeakerId,
      lastSpeakerIdRef>>

\* C32: once stop() has returned, no frame callback changes the roster, the
\* detector or the current speaker until start() is called again (no step
\* other than a stop() or a reset() does, while no start() is in progress);
\* and a start() that was awaiting microphone access when stop() returned
\* does not put the session into "running" after the stop.
C32_StoppedStaysStopped ==
    [][/\ (stopCalls >= 1 /\ pendingStarts = <<>>
             /\ stopCalls' = stopCalls)
          => UNCHANGED Attribution
       /\ (lastOp.op = "stop" /\ pendingStarts # <<>>)
          => status' # "running"]_vars


\* The start() calls made while status was not "running" (the Start button
\* is disabled only while it is) that are awaiting microphone access.
AwaitingAccess(starts) ==
    {i \in DOMAIN starts : /\ starts[i].phase = "getUserMedia"
                           /\ starts[i].status # "running"}

\* The step in which one of them is granted the microphone and stores its
\* stream in streamRef.
StoresStream ==
    /\ Cardinality(AwaitingAccess(pendingStarts'))
          < Cardinality(AwaitingAccess(pendingStarts))
    /\ ~IsStartFailed

\* The scheduled callbacks that pass their guard: the processing loops.
LiveLoops(queue) ==
    {i \in DOMAIN queue : /\ queue[i].status = "running"
                          /\ analyserRef /\ audioContextRef}

\* C33: at any time at most one capture stream and at most one
\* frame-processing loop are live: a start() called while status is not
\* "running" never stores its stream over one that is still live (which no
\* later stop() could then release), and no two processing loops are
\* scheduled.
C33_OneStreamOneLoop ==
    [][/\ StoresStream => ~streamRef
       /\ Cardinality(LiveLoops(rafQueue))' <= 1]_vars


\* The positions of the speakers marked active in a roster.
ActiveEntries(roster) == {i \in DOMAIN roster : roster[i].isActive}

\* C34: in every reachable state at most one speaker in the roster has
\* isActive = true, in the roster the hook exposes and in the one it keeps.
C34_AtMostOneActive ==
    /\ Cardinality(ActiveEntries(speakers)) <= 1
    /\ Cardinality(ActiveEntries(speakersRef)) <= 1

\* C34's case: a frame has handed the floor from one speaker of a roster of
\* two to the other, who alone is active.
C34_Witness ==
    /\ lastOp.op = "frame"
    /\ lastOp.notified # NULL
    /\ Len(speakers) = 2
    /\ speakers[1].totalTime + speakers[2].totalTime > 0
    /\ Cardinality(ActiveEntries(speakers)) = 1


(***************************************************************************)
(* Claims about new speakers and attribution (SpecDetector).               *)
(***************************************************************************)
\* The profiles of a detector that have fewer samples than a comparison
\* needs.
Unstable(d) ==
    {id \in DOMAIN d.profiles :
        d.profiles[id].samples < PROFILE_SAMPLES_THRESHOLD}

\* C35: a new speaker is created only in a state where every existing
\* profile has at least 10 samples; while any profile has fewer, every
\* accepted frame (pitch within the gate) is attributed to an existing
\* profile, whatever its pitch and centroid.
C35_NewSpeakerOnlyWhenAllStable ==
    [][IsCall =>
          /\ result'.isNewSpeaker => Unstable(detector) = {}
          /\ (Unstable(detector) # {}
                /\ ~PitchRejected(detector'.lastFeatures))
             => /\ ~result'.isNewSpeaker
                /\ result'.speakerId \in DOMAIN detector.profiles]_vars

\* C35's case: the second speaker has just been created, the first one's
\* profile having its 10 samples.
C35_Witness ==
    /\ result.isNewSpeaker
    /\ result.speakerId = 1
    /\ DOMAIN detector.profiles = {0, 1}
    /\ detector.profiles[0].samples >= PROFILE_SAMPLES_THRESHOLD
    /\ detector.profiles[1].samples = 1


\* C36: whenever processSpeakerDetection returns a non-negative speakerId,
\* the detector it returns holds a profile for that id: no frame is
\* attributed to a speaker that has no profile.
C36_AttributedSpeakerHasProfile ==
    result.speakerId >= 0 => result.speakerId \in DOMAIN detector.profiles


(***************************************************************************)
(* App.tsx: the application, which drives the hook and the session timer   *)
(* from the buttons of SessionControls.  The Start button is disabled      *)
(* while status is "running" and the Stop button while it is not; Reset is *)
(* always enabled.  handleStart is "await startAudio(); startTimer()":     *)
(* startAudio catches its own failure, so its promise always resolves, and *)
(* the rest of handleStart runs with the start() that ends.                *)
(***************************************************************************)
\* handleStart, up to the first await of startAudio().
HandleStart ==
    /\ status # "running"
    /\ StartBegins
    /\ pendingHandlers' =
          Append(pendingHandlers, [isRunning |-> timer.isRunning])
    /\ UNCHANGED timer

\* The rest of the i-th suspended handleStart: startTimer().
HandleStartTail(i) ==
    /\ timer' = startTimer(timer, pendingHandlers[i].isRunning, now)
    /\ pendingHandlers' = RemoveAt(pendingHandlers, i)

\* The ways the startAudio() a handleStart awaits comes to its end.
HandleStartGranted ==
    \E i \in DOMAIN pendingStarts : StartGrantedAt(i) /\ HandleStartTail(i)

HandleStartResumed ==
    \E i \in DOMAIN pendingStarts : StartResumedAt(i) /\ HandleStartTail(i)

HandleStartFailed ==
    \E i \in DOMAIN pendingStarts : StartFailedAt(i) /\ HandleStartTail(i)

\* handleStop: stopAudio(); stopTimer().
HandleStop ==
    /\ status = "running"
    /\ stop
    /\ timer' = stopTimer(timer, timer.isRunning, now)
    /\ UNCHANGED pendingHandlers

\* handleReset: resetAudio(); resetTimer().
HandleReset ==
    /\ reset
    /\ timer' = resetTimer(timer)
    /\ UNCHANGED pendingHandlers

AppInit ==
    /\ \E k \in 0..MaxCap : Mounted(k)
    /\ framesLeft = AppFrames
    /\ startsLeft = AppStarts
    /\ DetectorCreated(0)
    /\ switches = 0

AppNext ==
    \/ Tick
    \/ HandleStart
    \/ HandleStartGranted
    \/ StartGrantedSuspended
    \/ HandleStartResumed
    \/ HandleStartFailed
    \/ ProcessAudioFrame
    \/ HandleStop
    \/ HandleReset

SpecApp == AppInit /\ [][AppNext]_vars

(***************************************************************************)
(* Claims about the application (SpecApp).                                 *)
(***************************************************************************)
\* A step in which a handleStart runs to its end.
HandlerFinishes == Len(pendingHandlers') < Len(pendingHandlers)

\* C37: the session timer runs only while the audio session status is
\* "running": when handleStart has finished, the timer is running if the
\* audio start succeeded, and it is running only if status is "running", so
\* a failed start (error set, status not "running") leaves it stopped.
C37_TimerFollowsAudio ==
    [][HandlerFinishes =>
          /\ ~IsStartFailed => timer'.isRunning
          /\ timer'.isRunning => status' = "running"]_vars

=============================================================================
